---- MODULE Spec2Model ----
(***************************************************************************)
(* Model of backend/server.py (Rik life-coach API): the document store     *)
(* (users, habit_logs, schedules, daily_analysis), the handlers that write *)
(* it (create_user, add_points, log_habit, generate_smart_schedule,        *)
(* complete_schedule_item, generate_daily_analysis) and the handlers that  *)
(* compute from it (get_habit_streaks, get_user_insights,                  *)
(* get_daily_analysis).                                                    *)
(*                                                                         *)
(* Date strings.  Every date string of the model starts with "2025-07-";   *)
(* a date string is represented by the characters that follow that prefix, *)
(* a sequence of character codes: 0..9 are the digits '0'..'9' and 10 is a *)
(* letter (letters sort after digits, as in ASCII).  <<1,5>> is            *)
(* "2025-07-15", <<9>> is "2025-07-9", <<10,10>> is "2025-07-xx".  A       *)
(* calendar date is its day of the month, so date - timedelta(days=k) is   *)
(* integer subtraction (values <= 0 are days of June, which no string of   *)
(* the model denotes).                                                     *)
(***************************************************************************)
EXTENDS Integers, Sequences, FiniteSets, TLC

VARIABLES
    users,          \* db.users: user id -> profile document
    habit_logs,     \* db.habit_logs: documents in natural (insertion) order
    schedules,      \* db.schedules: documents in natural order
    daily_analysis, \* db.daily_analysis: documents in natural order
    chat_messages,  \* db.chat_messages: documents in natural order
    reqs,           \* in-flight log_habit requests (interleaved execution)
    resp            \* the response of the last handler that returned

vars ==
    <<users, habit_logs, schedules, daily_analysis, chat_messages, reqs, resp>>

----------------------------------------------------------------------------
(* Bounds of the model *)

MaxLogs == 3        \* habit_logs documents
MaxBack == 3        \* the earliest date logged is Today - MaxBack
MaxDocs == 2        \* habit_logs documents when handlers are run in sequence
MaxReqs == 2        \* log_habit requests in flight at once
MaxSched == 2       \* schedules documents
MaxPoints == 15     \* a user's points stay within -MaxPoints..MaxPoints
MaxInsightDocs == 3 \* documents in the three collections insights read
MaxChats == 2       \* chat exchanges stored

\* to_list(100) of get_habit_streaks
FetchLimit == 100

\* get_user_insights: timedelta(days=7), to_list(500), to_list(7) and the
\* score from which the average is an achievement
WindowDays == 7
InsightFetchLimit == 500
AnalysisFetchLimit == 7
AchievementScore == 70

\* get_chat_history: limit: int = 50
HistoryLimit == 50

----------------------------------------------------------------------------
(* Universes the inputs are drawn from *)

UserIds == {"u1", "u2"}
HabitNames == {"h1", "h2"}
Notes == {"none", "n1"}

\* datetime.now().date(): 2025-07-15
Today == 15

----------------------------------------------------------------------------
(* Date strings *)

IsDigit(c) == c \in 0..9

\* A date string of 2025 is written as the characters that follow
\* "2025-07-" (a day of July: "15" is <<1, 5>>) or, with its month, as the
\* characters that follow "2025-" ("04-06" is <<0, 4, 11, 0, 6>>, 11 being
\* the "-").  The documents of one collection are all written the same way.
\* A parsed date is counted in days, 1 being the first of July.

\* the days of the months of 2025
MonthDays == <<31, 28, 31, 30, 31, 30, 31, 31, 30, 31, 30, 31>>

RECURSIVE DaysBefore(_)
\* the days of 2025 before the first of month m
DaysBefore(m) == IF m <= 1 THEN 0 ELSE DaysBefore(m - 1) + MonthDays[m - 1]

\* the number one or two digits spell, -1 for anything else
ParseNum(s) ==
    IF Len(s) = 1 /\ IsDigit(s[1]) THEN s[1]
    ELSE IF Len(s) = 2 /\ IsDigit(s[1]) /\ IsDigit(s[2])
    THEN 10 * s[1] + s[2]
    ELSE 0 - 1

\* strptime on a string with its month: %m and %d take one or two digits
\* each and the day must be a day of the month
strptimeMonthDay(s) ==
    LET dashes == {i \in 1..Len(s) : s[i] = 11}
        p == CHOOSE i \in dashes : TRUE
        month == ParseNum(SubSeq(s, 1, p - 1))
        day == ParseNum(SubSeq(s, p + 1, Len(s)))
    IN  IF /\ Cardinality(dashes) = 1
           /\ month >= 1 /\ month <= 12
           /\ day >= 1 /\ day <= MonthDays[month]
        THEN [err |-> FALSE, day |-> DaysBefore(month) + day - DaysBefore(7)]
        ELSE [err |-> TRUE, day |-> 0]

\* datetime.strptime(s, "%Y-%m-%d").date() on "2025-07-" followed by s:
\* %d takes one or two digits and the value must be a day of July.
strptime(s) ==
    IF Len(s) = 1 /\ IsDigit(s[1]) /\ s[1] >= 1
    THEN [err |-> FALSE, day |-> s[1]]
    ELSE IF Len(s) = 2 /\ IsDigit(s[1]) /\ IsDigit(s[2])
            /\ 10 * s[1] + s[2] >= 1 /\ 10 * s[1] + s[2] <= 31
    THEN [err |-> FALSE, day |-> 10 * s[1] + s[2]]
    ELSE IF \E i \in 1..Len(s) : s[i] = 11
    THEN strptimeMonthDay(s)
    ELSE [err |-> TRUE, day |-> 0]

\* date.strftime("%Y-%m-%d") with the month, for a day of 2025 counted
\* from the first of July
strftimeMonthDay(day) ==
    LET n == day + DaysBefore(7)
        month == CHOOSE m \in 1..12 :
                     DaysBefore(m) < n /\ n <= DaysBefore(m) + MonthDays[m]
        d == n - DaysBefore(month)
    IN  <<month \div 10, month % 10, 11, d \div 10, d % 10>>

\* date.strftime("%Y-%m-%d") for a day of July: zero-padded, two digits.
strftime(day) == <<day \div 10, day % 10>>

\* a <= b as strings (lexicographic by character code)
StrLeq(a, b) ==
    LET n == IF Len(a) < Len(b) THEN Len(a) ELSE Len(b)
        diff == {i \in 1..n : a[i] # b[i]}
    IN  IF diff = {}
        THEN Len(a) <= Len(b)
        ELSE LET i == CHOOSE k \in diff : \A j \in diff : k <= j
             IN  a[i] < b[i]

----------------------------------------------------------------------------
(* Store helpers *)

\* the documents of seq at the positions lo..hi that are in match, in
\* natural order
RECURSIVE FindRange(_, _, _, _)
FindRange(seq, match, lo, hi) ==
    IF lo > hi
    THEN <<>>
    ELSE IF lo = hi
         THEN IF lo \in match THEN <<seq[lo]>> ELSE <<>>
         ELSE LET mid == (lo + hi) \div 2
              IN  FindRange(seq, match, lo, mid)
                      \o FindRange(seq, match, mid + 1, hi)

\* collection.find(filter): the documents of seq at the positions >= from
\* that are in match (the positions the filter selects), in natural order
Find(seq, match, from) == FindRange(seq, match, from, Len(seq))

\* collection.find_one(filter): the first position in match, 0 when none
FindOneIdx(match) ==
    IF match = {} THEN 0
    ELSE CHOOSE i \in match : \A j \in match : i <= j

\* to_list with no limit
ToListAll(seq, n) == seq

\* cursor.to_list(n): at most the first n documents
ToList(seq, n) == IF Len(seq) <= n THEN seq ELSE SubSeq(seq, 1, n)

\* uuid.uuid4(): an id no document of the collection has
NewId(seq) ==
    LET used == {seq[i].id : i \in 1..Len(seq)}
    IN  CHOOSE n \in 1..(Len(seq) + 1) : n \notin used

\* sorted is in descending date order: the number of its leading documents
\* that go ahead of date d, known to lie in lo..hi.  With strict only a
\* later date goes ahead of d, otherwise an equal date does as well.
RECURSIVE Ahead(_, _, _, _, _)
Ahead(sorted, d, strict, lo, hi) ==
    IF lo >= hi
    THEN lo
    ELSE LET mid == (lo + hi + 1) \div 2
             ahead == IF strict
                      THEN ~StrLeq(sorted[mid].date, d)
                      ELSE StrLeq(d, sorted[mid].date)
         IN  IF ahead
             THEN Ahead(sorted, d, strict, mid, hi)
             ELSE Ahead(sorted, d, strict, lo, mid - 1)

\* a and b are in descending date order and the documents of a precede
\* those of b in natural order: both in one descending sequence, the
\* documents with an equal date in natural order
MergeDesc(a, b) ==
    LET \* each document with its place in the merged sequence
        placed ==
            {<<i + Ahead(b, a[i].date, TRUE, 0, Len(b)), a[i]>> :
                 i \in 1..Len(a)}
            \cup {<<j + Ahead(a, b[j].date, FALSE, 0, Len(a)), b[j]>> :
                      j \in 1..Len(b)}
    IN  [k \in 1..(Len(a) + Len(b)) |->
            (CHOOSE p \in placed : p[1] = k)[2]]

\* cursor.sort("date", -1): by date descending, the documents with an
\* equal date in natural order
RECURSIVE SortDateDesc(_)
SortDateDesc(seq) ==
    IF Len(seq) <= 1
    THEN seq
    ELSE LET half == Len(seq) \div 2
         IN  MergeDesc(SortDateDesc(SubSeq(seq, 1, half)),
                       SortDateDesc(SubSeq(seq, half + 1, Len(seq))))

----------------------------------------------------------------------------
(* Users *)

\* UserProfile(**user_data, onboarding_completed=True): points and
\* streak_days take their defaults
NewProfile(build, quit) ==
    [points |-> 0, streak_days |-> 0, wake_time |-> "06:00",
     habits_to_build |-> build, habits_to_quit |-> quit,
     actual_routine |-> "", routine_learned |-> FALSE]

\* {"$set": {"points": n}} in place of the $inc
SetPoints(us, u, n) ==
    IF u \in DOMAIN us
    THEN [us EXCEPT ![u].points = n]
    ELSE us

\* db.users.update_one({"id": u}, {"$inc": {"points": n}}): no document
\* matches an unknown id and nothing is written
IncPointsAndStreak(us, u, n) ==
    IF u \in DOMAIN us
    THEN [us EXCEPT ![u].points = @ + n, ![u].streak_days = @ + 1]
    ELSE us

IncPoints(us, u, n) ==
    IF u \in DOMAIN us
    THEN [us EXCEPT ![u].points = @ + n]
    ELSE us

\* POST /users
create_user(u, build, quit) ==
    /\ u \notin DOMAIN users
    /\ users' = users @@ (u :> NewProfile(build, quit))
    /\ resp' = [op |-> "create_user", user |-> u, status |-> 200,
                body |-> NewProfile(build, quit)]
    /\ UNCHANGED <<chat_messages, habit_logs, schedules, daily_analysis, reqs>>

\* PUT /users/{user_id}: {"$set": updates} on the document of u; no
\* document matches an unknown id.  updates is a record of profile fields.
update_user(u, updates) ==
    /\ users' = IF u \in DOMAIN users
                THEN [users EXCEPT ![u] =
                         [k \in DOMAIN users[u] |->
                             IF k \in DOMAIN updates THEN updates[k]
                             ELSE users[u][k]]]
                ELSE users
    /\ resp' = [op |-> "update_user", user |-> u, status |-> 200,
                body |-> "updated"]
    /\ UNCHANGED <<habit_logs, schedules, daily_analysis, chat_messages, reqs>>

\* POST /users/{user_id}/add-points
add_points(u, points) ==
    /\ u \in DOMAIN users =>
          /\ users[u].points + points <= MaxPoints
          /\ users[u].points + points >= 0 - MaxPoints
    /\ users' = IncPoints(users, u, points)
    /\ resp' = IF u \in DOMAIN users
               THEN [op |-> "add_points", user |-> u, status |-> 200,
                     body |-> users'[u].points]
               ELSE \* user is None: user.get raises AttributeError
                    [op |-> "add_points", user |-> u, status |-> 500,
                     body |-> 0]
    /\ UNCHANGED <<chat_messages, habit_logs, schedules, daily_analysis, reqs>>

----------------------------------------------------------------------------
(* Habit logs *)

\* FindExisting whose filter gives the user id under "habit_name" too
FindExistingWrongKey(logs, u, h, d) ==
    FindOneIdx({i \in 1..Len(logs) :
                   /\ logs[i].user_id = u
                   /\ logs[i].habit_name = u
                   /\ logs[i].date = d})

\* find_one({"user_id": u, "habit_name": h, "date": d}) on db.habit_logs
FindExisting(logs, u, h, d) ==
    FindOneIdx({i \in 1..Len(logs) :
                   /\ logs[i].user_id = u
                   /\ logs[i].habit_name = h
                   /\ logs[i].date = d})

\* UpdateExisting that sets completed and leaves notes
UpdateExistingCompletedOnly(logs, id, c, n) ==
    LET i == FindOneIdx({k \in 1..Len(logs) : logs[k].id = id})
    IN  IF i = 0 THEN logs
        ELSE [logs EXCEPT ![i].completed = c]

\* update_one({"id": id}, {"$set": {"completed": c, "notes": n}}): the
\* first document with that id
UpdateExisting(logs, id, c, n) ==
    LET i == FindOneIdx({k \in 1..Len(logs) : logs[k].id = id})
    IN  IF i = 0 THEN logs
        ELSE [logs EXCEPT ![i].completed = c, ![i].notes = n]

\* HabitLog(**habit_data.model_dump()) with a new id
NewHabitLog(logs, u, h, c, d, n) ==
    [id |-> NewId(logs), user_id |-> u, habit_name |-> h,
     completed |-> c, date |-> d, notes |-> n]

\* HabitPoints that does not look at completed
HabitPointsAlways(c) == IF c THEN 5 ELSE 5

\* the points a new log earns
HabitPoints(c) == IF c THEN 5 ELSE 0

\* the request body (HabitLogCreate)
HabitLogCreate(u, h, c, d, n) ==
    [user_id |-> u, habit_name |-> h, completed |-> c, date |-> d,
     notes |-> n]

\* the document with that id (find_one({"id": id}))
LogById(logs, id) ==
    logs[FindOneIdx({k \in 1..Len(logs) : logs[k].id = id})]

\* what log_habit returns: the stored or the new document
LogHabitResp(req, doc, created) ==
    [op |-> "log_habit", user |-> req.user_id, status |-> 200,
     body |-> doc, req |-> req, created |-> created]

\* POST /habits/log, run to completion
log_habit(u, h, c, d, n) ==
    LET existing == FindExisting(habit_logs, u, h, d)
        req == HabitLogCreate(u, h, c, d, n)
        habit_log == NewHabitLog(habit_logs, u, h, c, d, n)
    IN  /\ existing # 0 \/ Len(habit_logs) < MaxDocs
        /\ IF existing # 0
           THEN /\ habit_logs' =
                      UpdateExisting(habit_logs, habit_logs[existing].id, c, n)
                /\ users' = users
                /\ resp' = LogHabitResp(
                               req,
                               LogById(habit_logs', habit_logs[existing].id),
                               FALSE)
           ELSE /\ habit_logs' = Append(habit_logs, habit_log)
                /\ users' = IncPoints(users, u, HabitPoints(c))
                /\ resp' = LogHabitResp(req, habit_log, TRUE)
        /\ UNCHANGED <<chat_messages, schedules, daily_analysis, reqs>>

\* CompletedLogs without the sort
CompletedLogsUnsorted(logs, u, habit) ==
    LET match == {i \in 1..Len(logs) :
                     /\ logs[i].user_id = u
                     /\ logs[i].habit_name = habit
                     /\ logs[i].completed}
    IN  ToList(Find(logs, match, 1), FetchLimit)

\* CompletedLogs without the "completed": True filter
CompletedLogsAnyState(logs, u, habit) ==
    LET match == {i \in 1..Len(logs) :
                     /\ logs[i].user_id = u
                     /\ logs[i].habit_name = habit}
    IN  ToList(SortDateDesc(Find(logs, match, 1)), FetchLimit)

\* find({"user_id": u, "habit_name": habit, "completed": True})
\*   .sort("date", -1).to_list(100)
CompletedLogs(logs, u, habit) ==
    LET match == {i \in 1..Len(logs) :
                     /\ logs[i].user_id = u
                     /\ logs[i].habit_name = habit
                     /\ logs[i].completed}
    IN  ToList(SortDateDesc(Find(logs, match, 1)), FetchLimit)

\* the loop over logs from position i with the streak counted so far:
\* a date that does not parse raises, a date other than the expected one
\* ends the loop.  stop is the first position at which one or the other
\* happens, each log before it adding one day to the streak.
ScanStreak(logs, i, streak) ==
    LET stops == {j \in i..Len(logs) :
                     \/ strptime(logs[j].date).err
                     \/ strptime(logs[j].date).day # Today - (streak + (j - i))}
        stop == CHOOSE j \in stops : \A k \in stops : j <= k
    IN  IF stops = {}
        THEN [err |-> FALSE,
              streak |-> IF i > Len(logs) THEN streak
                         ELSE streak + (Len(logs) - i + 1)]
        ELSE [err |-> strptime(logs[stop].date).err,
              streak |-> streak + (stop - i)]

\* the streak of one habit of user u
HabitStreak(logs, u, habit) == ScanStreak(CompletedLogs(logs, u, habit), 1, 0)

\* AllHabits without the habits to quit
AllHabitsBuildOnly(profile) == profile.habits_to_build

\* user.get("habits_to_build", []) + user.get("habits_to_quit", [])
AllHabits(profile) == profile.habits_to_build \o profile.habits_to_quit

SeqRange(seq) == {seq[i] : i \in 1..Len(seq)}

\* get_habit_streaks that also writes a streak into the profile
get_habit_streaks_stored(u) ==
    /\ resp' = [op |-> "get_habit_streaks", user |-> u,
                status |-> IF u \in DOMAIN users THEN 200 ELSE 404,
                body |-> <<>>]
    /\ users' = IF u \in DOMAIN users
                THEN [users EXCEPT ![u].streak_days = 1]
                ELSE users
    /\ UNCHANGED <<chat_messages, habit_logs, schedules, daily_analysis, reqs>>

\* GET /habits/{user_id}/streaks
get_habit_streaks(u) ==
    /\ resp' =
         IF u \notin DOMAIN users
         THEN [op |-> "get_habit_streaks", user |-> u, status |-> 404,
               body |-> <<>>]
         ELSE LET names == SeqRange(AllHabits(users[u]))
              IN  IF \E h \in names : HabitStreak(habit_logs, u, h).err
                  THEN [op |-> "get_habit_streaks", user |-> u,
                        status |-> 500, body |-> <<>>]
                  ELSE [op |-> "get_habit_streaks", user |-> u,
                        status |-> 200,
                        body |-> [h \in names |->
                                    HabitStreak(habit_logs, u, h).streak]]
    /\ UNCHANGED <<chat_messages, users, habit_logs, schedules, daily_analysis, reqs>>

----------------------------------------------------------------------------
(* Initial states *)

NoResp == [op |-> "none", user |-> "none", status |-> 0, body |-> <<>>]

\* a request slot no request occupies
IdleReq ==
    [pc |-> "idle", req |-> HabitLogCreate("none", "none", FALSE, <<>>, "none"),
     id |-> 0]

NoReqs == [r \in 1..MaxReqs |-> IdleReq]

\* an empty database, no request in flight
Init ==
    /\ users = <<>>
    /\ habit_logs = <<>>
    /\ schedules = <<>>
    /\ daily_analysis = <<>>
    /\ reqs = NoReqs
    /\ resp = NoResp
    /\ chat_messages = <<>>

----------------------------------------------------------------------------
(* SpecStreak: get_habit_streaks over every habit_logs collection that     *)
(* log_habit calls for user u1 can have built (at most MaxLogs documents,  *)
(* dates from Today - MaxBack to Today + 1)                                *)

StreakDates == {strftime(Today - k) : k \in (0 - 1)..MaxBack}

\* the n-th document log_habit inserts: ids are handed out in order
StreakLog(i, x) ==
    [id |-> i, user_id |-> "u1", habit_name |-> x[1], completed |-> x[2],
     date |-> x[3], notes |-> "none"]

\* log_habit inserts a document only for a (habit, date) that has none
OnePerHabitDate(f) ==
    \A i, j \in DOMAIN f :
        i # j => f[i][1] # f[j][1] \/ f[i][3] # f[j][3]

InitStreak ==
    /\ users = ("u1" :> NewProfile(<<"h1">>, <<"h2">>))
    /\ \E n \in 0..MaxLogs :
          \E f \in {g \in [1..n -> HabitNames \X BOOLEAN \X StreakDates] :
                        OnePerHabitDate(g)} :
              habit_logs = [i \in 1..n |-> StreakLog(i, f[i])]
    /\ schedules = <<>>
    /\ daily_analysis = <<>>
    /\ reqs = NoReqs
    /\ resp = NoResp
    /\ chat_messages = <<>>

NextStreak == \E u \in UserIds : get_habit_streaks(u)

SpecStreak == InitStreak /\ [][NextStreak]_vars

\* the completed logs of habit h of user u
DoneLogs(u, h) ==
    {i \in 1..Len(habit_logs) :
        /\ habit_logs[i].user_id = u
        /\ habit_logs[i].habit_name = h
        /\ habit_logs[i].completed}

\* a completed log of habit h of user u exists for calendar day `day`
DoneOn(u, h, day) ==
    \E i \in DoneLogs(u, h) :
        /\ ~strptime(habit_logs[i].date).err
        /\ strptime(habit_logs[i].date).day = day

\* the largest k with a completed log on each of Today, ..., Today - (k-1)
LongestRun(u, h) ==
    CHOOSE k \in 0..Len(habit_logs) :
        /\ \A i \in 0..(k - 1) : DoneOn(u, h, Today - i)
        /\ ~DoneOn(u, h, Today - k)

\* a completed log of habit h of user u is dated after today
DoneAfterToday(u, h) ==
    \E day \in (Today + 1)..31 : DoneOn(u, h, day)

StreaksReturned == resp.op = "get_habit_streaks" /\ resp.status = 200

C2_NoLogTodayNoStreak ==
    StreaksReturned =>
        \A h \in DOMAIN resp.body :
            ~DoneOn(resp.user, h, Today) => resp.body[h] = 0

\* C2 witness: today logged with completed = false, the two days before
\* completed, streak 0
C2_Witness ==
    /\ StreaksReturned
    /\ \E i \in 1..Len(habit_logs) :
          /\ habit_logs[i].habit_name = "h1"
          /\ habit_logs[i].date = strftime(Today)
          /\ ~habit_logs[i].completed
    /\ DoneOn("u1", "h1", Today - 1)
    /\ DoneOn("u1", "h1", Today - 2)
    /\ resp.body["h1"] = 0

----------------------------------------------------------------------------
(* SpecHabits: the habit handlers run one at a time on an empty database   *)

HabitDates == {strftime(Today), strftime(Today - 1)}

\* the requests posted: any log of u1's habits, and logs of habit h1 for
\* today by u2, whom create_user never registers
HabitRequests ==
    {HabitLogCreate("u1", h, c, d, n) :
        h \in HabitNames, c \in BOOLEAN, d \in HabitDates, n \in Notes}
    \cup {HabitLogCreate("u2", "h1", c, strftime(Today), "none") :
             c \in BOOLEAN}

NextHabits ==
    \/ create_user("u1", <<"h1">>, <<"h2">>)
    \/ \E r \in HabitRequests :
          log_habit(r.user_id, r.habit_name, r.completed, r.date, r.notes)
    \/ \E u \in UserIds : get_habit_streaks(u)

SpecHabits == Init /\ [][NextHabits]_vars

\* the positions of the documents of one (user_id, habit_name, date)
LogsOf(u, h, d) ==
    {i \in 1..Len(habit_logs) :
        /\ habit_logs[i].user_id = u
        /\ habit_logs[i].habit_name = h
        /\ habit_logs[i].date = d}

\* the positions of the documents of one user and date
LogsOn(u, d) ==
    {i \in 1..Len(habit_logs) :
        habit_logs[i].user_id = u /\ habit_logs[i].date = d}

AllLogDates == {habit_logs[i].date : i \in 1..Len(habit_logs)}

\* C3: with log_habit calls run one at a time, habit_logs holds at most one
\* document per (user_id, habit_name, date), the triple just logged has its
\* document, and a user and date have as many documents as distinct habits
\* were logged for them.
C3_OneLogPerTriple ==
    /\ \A u \in UserIds, h \in HabitNames, d \in AllLogDates :
          Cardinality(LogsOf(u, h, d)) <= 1
    /\ \A u \in UserIds, d \in AllLogDates :
          Cardinality(LogsOn(u, d)) =
              Cardinality({habit_logs[i].habit_name : i \in LogsOn(u, d)})
    /\ resp.op = "log_habit" =>
          Cardinality(LogsOf(resp.req.user_id, resp.req.habit_name,
                             resp.req.date)) = 1

\* C3 witness: two habits logged for u1 and today, the second one twice:
\* two documents for u1 and today
C3_Witness ==
    /\ resp.op = "log_habit"
    /\ ~resp.created
    /\ resp.req.user_id = "u1"
    /\ resp.req.date = strftime(Today)
    /\ Cardinality(LogsOn("u1", strftime(Today))) = 2

\* the stored document of the request the last log_habit answered
LoggedDoc ==
    habit_logs[FindOneIdx(LogsOf(resp.req.user_id, resp.req.habit_name,
                                 resp.req.date))]

\* C5: a log_habit call for a triple that has a document creates none, and
\* after any log_habit call the triple's document has the call's completed
\* and notes, so the streak of a habit logged for today is at least 1
\* exactly when the last call for today said completed.
C5_LastWriteWins ==
    /\ [](resp.op = "log_habit" =>
            /\ LoggedDoc.completed = resp.req.completed
            /\ LoggedDoc.notes = resp.req.notes
            /\ resp.req.date = strftime(Today) =>
                  (HabitStreak(habit_logs, resp.req.user_id,
                               resp.req.habit_name).streak >= 1
                     <=> resp.req.completed))
    /\ [][(/\ resp'.op = "log_habit"
           /\ LogsOf(resp'.req.user_id, resp'.req.habit_name,
                     resp'.req.date) # {})
          => (Len(habit_logs') = Len(habit_logs) /\ ~resp'.created)]_vars

\* C5 witness: u1's only log, created completed (5 points), logged again
\* with completed = false and a note
C5_Witness ==
    /\ resp.op = "log_habit"
    /\ ~resp.created
    /\ ~resp.req.completed
    /\ resp.req.notes = "n1"
    /\ resp.req.date = strftime(Today)
    /\ Len(habit_logs) = 1
    /\ "u1" \in DOMAIN users
    /\ users["u1"].points = 5

----------------------------------------------------------------------------
(* SpecConc: log_habit requests served concurrently.  The handler is a     *)
(* coroutine: each awaited store call is one step, and the steps of the    *)
(* requests in flight interleave.  reqs[r].pc is the call request r is     *)
(* about to make, reqs[r].id the id of the document it found or inserted.  *)

\* a request arrives and the handler starts
LogHabitCall(r, req) ==
    /\ reqs[r].pc = "idle"
    /\ Len(habit_logs) + Cardinality({x \in 1..MaxReqs : reqs[x].pc # "idle"})
         < MaxDocs
    /\ reqs' = [reqs EXCEPT ![r] = [pc |-> "find_one", req |-> req, id |-> 0]]
    /\ UNCHANGED <<chat_messages, users, habit_logs, schedules, daily_analysis, resp>>

\* existing = await db.habit_logs.find_one({...})
LogHabitFindOne(r) ==
    LET req == reqs[r].req
        existing == FindExisting(habit_logs, req.user_id, req.habit_name,
                                 req.date)
    IN  /\ reqs[r].pc = "find_one"
        /\ reqs' = IF existing # 0
                   THEN [reqs EXCEPT ![r].pc = "update_one",
                                     ![r].id = habit_logs[existing].id]
                   ELSE [reqs EXCEPT ![r].pc = "insert_one"]
        /\ UNCHANGED <<chat_messages, users, habit_logs, schedules, daily_analysis, resp>>

\* await db.habit_logs.update_one({"id": existing["id"]}, {"$set": ...})
LogHabitUpdateOne(r) ==
    /\ reqs[r].pc = "update_one"
    /\ habit_logs' = UpdateExisting(habit_logs, reqs[r].id,
                                    reqs[r].req.completed, reqs[r].req.notes)
    /\ reqs' = [reqs EXCEPT ![r].pc = "find_updated"]
    /\ UNCHANGED <<chat_messages, users, schedules, daily_analysis, resp>>

\* updated = await db.habit_logs.find_one({"id": existing["id"]}); return
LogHabitFindUpdated(r) ==
    /\ reqs[r].pc = "find_updated"
    /\ resp' = LogHabitResp(reqs[r].req, LogById(habit_logs, reqs[r].id),
                            FALSE)
    /\ reqs' = [reqs EXCEPT ![r] = IdleReq]
    /\ UNCHANGED <<chat_messages, users, habit_logs, schedules, daily_analysis>>

\* await db.habit_logs.insert_one(habit_log.model_dump()); a log that is
\* not completed returns here
LogHabitInsertOne(r) ==
    LET req == reqs[r].req
        habit_log == NewHabitLog(habit_logs, req.user_id, req.habit_name,
                                 req.completed, req.date, req.notes)
    IN  /\ reqs[r].pc = "insert_one"
        /\ habit_logs' = Append(habit_logs, habit_log)
        /\ IF req.completed
           THEN /\ reqs' = [reqs EXCEPT ![r].pc = "inc_points",
                                        ![r].id = habit_log.id]
                /\ resp' = resp
           ELSE /\ reqs' = [reqs EXCEPT ![r] = IdleReq]
                /\ resp' = LogHabitResp(req, habit_log, TRUE)
        /\ UNCHANGED <<chat_messages, users, schedules, daily_analysis>>

\* await db.users.update_one({"id": user_id}, {"$inc": {"points": 5}});
\* return habit_log (the object built before the insert)
LogHabitIncPoints(r) ==
    LET req == reqs[r].req
    IN  /\ reqs[r].pc = "inc_points"
        /\ users' = IncPoints(users, req.user_id, HabitPoints(req.completed))
        /\ resp' = LogHabitResp(
                       req,
                       [id |-> reqs[r].id, user_id |-> req.user_id,
                        habit_name |-> req.habit_name,
                        completed |-> req.completed, date |-> req.date,
                        notes |-> req.notes],
                       TRUE)
        /\ reqs' = [reqs EXCEPT ![r] = IdleReq]
        /\ UNCHANGED <<chat_messages, habit_logs, schedules, daily_analysis>>

\* the requests posted concurrently: logs of u1's habits for today
ConcRequests ==
    {HabitLogCreate("u1", h, c, strftime(Today), n) :
        h \in HabitNames, c \in BOOLEAN, n \in Notes}

NextConc ==
    \/ create_user("u1", <<"h1">>, <<"h2">>)
    \/ \E r \in 1..MaxReqs :
          \/ \E req \in ConcRequests : LogHabitCall(r, req)
          \/ LogHabitFindOne(r)
          \/ LogHabitUpdateOne(r)
          \/ LogHabitFindUpdated(r)
          \/ LogHabitInsertOne(r)
          \/ LogHabitIncPoints(r)

SpecConc == Init /\ [][NextConc]_vars

\* C4: however concurrent log_habit requests interleave, once none is in
\* flight habit_logs holds at most one document per (user_id, habit_name,
\* date).
C4_OneLogPerTripleConcurrent ==
    reqs = NoReqs =>
        \A u \in UserIds, h \in HabitNames, d \in AllLogDates :
            Cardinality(LogsOf(u, h, d)) <= 1

----------------------------------------------------------------------------
(* Schedules *)

\* What chat.send_message and the parse of its text come to:
\*   kind "error": send_message raises;
\*   kind "text":  json.loads raises, the default schedule is taken;
\*   kind "json":  json.loads returns an array, items are its elements.
\* An element is [dict |-> TRUE, title, time], a JSON object whose keys the
\* ScheduleItem model accepts ("missing": the key is absent), or
\* [dict |-> FALSE, ...], an element ScheduleItem(...) raises on (not an
\* object, or a field of the wrong type).  A JSON value that is no array
\* acts as an array: an object or a string iterates as its keys or
\* characters (elements that raise), a number raises before any element.
LLMItem(title, time) == [dict |-> TRUE, title |-> title, time |-> time]

BadItem == [dict |-> FALSE, title |-> "missing", time |-> "missing"]

\* item.get(key, default)
ItemGet(item, key, default) ==
    IF item[key] = "missing" THEN default ELSE item[key]

\* DefaultSchedule at the default wake time, whatever the profile says
DefaultScheduleFixedTime(profile) == <<LLMItem("Wake Up", "06:00")>>

\* the except branch of the parse: one default item at the user's wake time
DefaultSchedule(profile) == <<LLMItem("Wake Up", profile.wake_time)>>

\* schedule_items after the parse
ParsedSchedule(llm, profile) ==
    IF llm.kind = "text" THEN DefaultSchedule(profile) ELSE llm.items

\* the positions of the documents of one user and date
OnUserDate(seq, u, d) ==
    {i \in 1..Len(seq) : seq[i].user_id = u /\ seq[i].date = d}

\* delete_one in place of delete_many: only the first match goes
DeleteOne(seq, u, d) ==
    LET first == FindOneIdx(OnUserDate(seq, u, d))
    IN  Find(seq, (1..Len(seq)) \ {first}, 1)

\* db.<collection>.delete_many({"user_id": u, "date": d})
DeleteMany(seq, u, d) ==
    Find(seq, (1..Len(seq)) \ OnUserDate(seq, u, d), 1)

\* ScheduleItem(user_id=..., date=..., time=item.get("time", "00:00"),
\*              title=item.get("title", "Task"), ...): completed defaults to
\* False
NewScheduleItem(seq, u, d, item) ==
    [id |-> NewId(seq), user_id |-> u, date |-> d,
     time |-> ItemGet(item, "time", "00:00"),
     title |-> ItemGet(item, "title", "Task"),
     completed |-> FALSE]

RECURSIVE SaveItems(_, _, _, _, _, _)
\* the loop over schedule_items from position k: each item is built and
\* inserted in turn; the first element that raises ends the handler with
\* the earlier ones inserted
SaveItems(seq, saved, u, d, items, k) ==
    IF k > Len(items) THEN [err |-> FALSE, seq |-> seq, saved |-> saved]
    ELSE IF ~items[k].dict THEN [err |-> TRUE, seq |-> seq, saved |-> saved]
    ELSE LET schedule_item == NewScheduleItem(seq, u, d, items[k])
         IN  SaveItems(Append(seq, schedule_item),
                       Append(saved, schedule_item), u, d, items, k + 1)

SchedResp(u, d, llm, status, saved) ==
    [op |-> "generate_smart_schedule", user |-> u, date |-> d, llm |-> llm,
     status |-> status, body |-> saved]

\* POST /rik/generate-smart-schedule, run to completion.  Every exception,
\* the 404 of the user lookup included, is caught and raised again as 500.
generate_smart_schedule(u, d, llm) ==
    IF u \notin DOMAIN users \/ llm.kind = "error"
    THEN /\ resp' = SchedResp(u, d, llm, 500, <<>>)
         /\ UNCHANGED <<chat_messages, users, habit_logs, schedules, daily_analysis, reqs>>
    ELSE LET schedule_items == ParsedSchedule(llm, users[u])
             cleared == DeleteMany(schedules, u, d)
             done == SaveItems(cleared, <<>>, u, d, schedule_items, 1)
         IN  /\ Len(done.seq) <= MaxSched
             /\ schedules' = done.seq
             /\ resp' = IF done.err
                        THEN SchedResp(u, d, llm, 500, <<>>)
                        ELSE SchedResp(u, d, llm, 200, done.saved)
             /\ UNCHANGED <<chat_messages, users, habit_logs, daily_analysis, reqs>>

\* PUT /schedule/{item_id}/complete
complete_schedule_item(item_id) ==
    LET i == FindOneIdx({k \in 1..Len(schedules) : schedules[k].id = item_id})
    IN  /\ schedules' = IF i = 0 THEN schedules
                        ELSE [schedules EXCEPT ![i].completed = TRUE]
        /\ resp' = [op |-> "complete_schedule_item", user |-> "none",
                    item_id |-> item_id, status |-> 200,
                    body |-> [status |-> "completed", points_earned |-> 10]]
        /\ UNCHANGED <<chat_messages, users, habit_logs, daily_analysis, reqs>>

----------------------------------------------------------------------------
(* SpecSchedule: the schedule handlers run one at a time                   *)

\* the (user, date) pairs schedules are asked for
SchedRequests ==
    {<<"u1", strftime(Today)>>, <<"u1", strftime(Today + 1)>>,
     <<"u2", strftime(Today)>>}

RunItem == LLMItem("Run", "07:00")

\* an object with none of the keys: every field takes its default
EmptyItem == LLMItem("missing", "missing")

\* the responses of the LLM: a failure, prose, and arrays of up to two
\* elements
LLMSchedules ==
    {[kind |-> "error", items |-> <<>>], [kind |-> "text", items |-> <<>>]}
    \cup {[kind |-> "json", items |-> items] :
             items \in {<<>>, <<RunItem>>, <<EmptyItem>>, <<BadItem>>,
                        <<RunItem, EmptyItem>>, <<RunItem, BadItem>>}}

NextSchedule ==
    \/ \E u \in UserIds : create_user(u, <<"h1">>, <<>>)
    \/ \E r \in SchedRequests, llm \in LLMSchedules :
          generate_smart_schedule(r[1], r[2], llm)
    \/ \E item_id \in 1..(MaxSched + 1) : complete_schedule_item(item_id)

SpecSchedule == Init /\ [][NextSchedule]_vars

\* the documents stored for one user and date, in natural order
ScheduleOf(u, d) == Find(schedules, OnUserDate(schedules, u, d), 1)

ScheduleGenerated ==
    resp.op = "generate_smart_schedule" /\ resp.status = 200

\* the items a response asks for: the array's elements, or for prose the
\* single default item
ItemsAsked(llm) ==
    IF llm.kind = "text" THEN <<LLMItem("Wake Up", "06:00")>> ELSE llm.items

\* C6: after a successful generate_smart_schedule(user, date) the documents
\* stored for (user, date) are exactly the items of this generation, in
\* order, each with completed = false, and the documents of every other
\* (user, date) are the ones stored before the call.
C6_ReplaceNotMerge ==
    /\ [](ScheduleGenerated =>
            LET stored == ScheduleOf(resp.user, resp.date)
                asked == ItemsAsked(resp.llm)
            IN  /\ stored = resp.body
                /\ Len(stored) = Len(asked)
                /\ \A k \in 1..Len(stored) :
                      /\ ~stored[k].completed
                      /\ stored[k].title = ItemGet(asked[k], "title", "Task")
                      /\ stored[k].time = ItemGet(asked[k], "time", "00:00"))
    /\ [][(resp'.op = "generate_smart_schedule" /\ resp'.status = 200) =>
            \A r \in SchedRequests :
                r # <<resp'.user, resp'.date>> =>
                    Find(schedules', OnUserDate(schedules', r[1], r[2]), 1)
                        = ScheduleOf(r[1], r[2])]_vars

\* C6 witness: u1's schedule for today was generated as one default-valued
\* item while a completed item of u1's schedule for tomorrow stays stored
C6_Witness ==
    /\ ScheduleGenerated
    /\ resp.user = "u1"
    /\ resp.date = strftime(Today)
    /\ resp.llm.items = <<EmptyItem>>
    /\ Len(ScheduleOf("u1", strftime(Today))) = 1
    /\ Len(ScheduleOf("u1", strftime(Today + 1))) = 1
    /\ ScheduleOf("u1", strftime(Today + 1))[1].completed

----------------------------------------------------------------------------
(* Daily analysis *)

\* What chat.send_message and the parse of its text come to:
\*   kind "error": send_message raises;
\*   kind "text":  json.loads raises, the default data is taken;
\*   kind "other": json.loads returns a value that is no object, data.get
\*                 raises;
\*   kind "json":  json.loads returns an object.  Each of overall_score
\*                 and points_earned is [key |-> "int", val |-> n],
\*                 [key |-> "missing", ...] (the key is absent) or
\*                 [key |-> "bad", ...] (a value that is no number).
IntField(n) == [key |-> "int", val |-> n]

MissingField == [key |-> "missing", val |-> 0]

BadField == [key |-> "bad", val |-> 0]

LLMAnalysis(score, points) ==
    [kind |-> "json", overall_score |-> score, points_earned |-> points]

\* the except branch of the parse
DefaultAnalysisData == LLMAnalysis(IntField(50), IntField(0))

\* data after the parse
ParsedAnalysis(llm) == IF llm.kind = "text" THEN DefaultAnalysisData ELSE llm

\* data.get(key, default) for a key that is absent or a number
DataGet(field, default) == IF field.key = "missing" THEN default ELSE field.val

\* if not date: date = datetime.now().strftime("%Y-%m-%d")
AnalysisDate(d) == IF d = <<>> THEN strftime(Today) ELSE d

AnalysisResp(u, d, llm, status, body) ==
    [op |-> "generate_daily_analysis", user |-> u, date |-> d, llm |-> llm,
     status |-> status, body |-> body]

\* DailyAnalysis(user_id=..., date=..., overall_score=..., points_earned=...)
\* with a new id
NewAnalysis(seq, u, d, data) ==
    [id |-> NewId(seq), user_id |-> u, date |-> d,
     overall_score |-> DataGet(data.overall_score, 50),
     points_earned |-> DataGet(data.points_earned, 0)]

\* insert_one with no delete_many before it
KeepAndInsert(seq, u, d, analysis) == Append(seq, analysis)

\* delete_many({"user_id": u, "date": d}) and insert_one(analysis)
ReplaceAnalysis(seq, u, d, analysis) ==
    Append(DeleteMany(seq, u, d), analysis)

\* POST /analysis/{user_id}, run to completion.  Every exception is caught
\* and raised again as 500.  The points are added before the analysis is
\* built, so a score that is no number fails after the points were added; a
\* points_earned that is no number fails in the $inc.
generate_daily_analysis(u, date, llm) ==
    LET d == AnalysisDate(date)
        data == ParsedAnalysis(llm)
    IN  IF u \notin DOMAIN users \/ llm.kind \in {"error", "other"}
        THEN /\ resp' = AnalysisResp(u, d, llm, 500, <<>>)
             /\ UNCHANGED <<chat_messages, users, habit_logs, schedules, daily_analysis,
                            reqs>>
        ELSE IF data.points_earned.key = "bad"
        THEN /\ resp' = AnalysisResp(u, d, llm, 500, <<>>)
             /\ UNCHANGED <<chat_messages, users, habit_logs, schedules, daily_analysis,
                            reqs>>
        ELSE LET points == DataGet(data.points_earned, 0)
                 analysis == NewAnalysis(daily_analysis, u, d, data)
             IN  /\ users[u].points + points <= MaxPoints
                 /\ users[u].points + points >= 0 - MaxPoints
                 /\ users' = IncPoints(users, u, points)
                 /\ IF data.overall_score.key = "bad"
                    THEN /\ daily_analysis' = daily_analysis
                         /\ resp' = AnalysisResp(u, d, llm, 500, <<>>)
                    ELSE /\ daily_analysis' =
                               ReplaceAnalysis(daily_analysis, u, d, analysis)
                         /\ resp' = AnalysisResp(u, d, llm, 200, analysis)
                 /\ UNCHANGED <<chat_messages, habit_logs, schedules, reqs>>

\* find_one({"user_id": u, "date": d}) on db.daily_analysis: the first
\* match as a one-element sequence, <<>> for None
StoredAnalysis(seq, u, d) ==
    LET i == FindOneIdx(OnUserDate(seq, u, d))
    IN  IF i = 0 THEN <<>> ELSE <<seq[i]>>

\* GET /analysis/{user_id}/{date}
get_daily_analysis(u, d) ==
    /\ resp' = [op |-> "get_daily_analysis", user |-> u, date |-> d,
                status |-> 200, body |-> StoredAnalysis(daily_analysis, u, d)]
    /\ UNCHANGED <<chat_messages, users, habit_logs, schedules, daily_analysis, reqs>>

----------------------------------------------------------------------------
(* SpecAnalysis: the analysis handlers run one at a time; create_user      *)
(* never registers u2                                                      *)

\* the (user, date) pairs analyses are asked for; <<>> is no date given
AnalysisRequests ==
    {<<"u1", <<>>>>, <<"u1", strftime(Today)>>, <<"u1", strftime(Today - 1)>>,
     <<"u2", strftime(Today)>>}

LLMAnalyses ==
    {[kind |-> k, overall_score |-> MissingField,
      points_earned |-> MissingField] : k \in {"error", "text", "other"}}
    \cup {LLMAnalysis(IntField(70), IntField(15)),
          LLMAnalysis(IntField(0), MissingField),
          LLMAnalysis(MissingField, IntField(0 - 10)),
          LLMAnalysis(BadField, IntField(15)),
          LLMAnalysis(IntField(70), BadField)}

AnalysisKeys == {<<r[1], AnalysisDate(r[2])>> : r \in AnalysisRequests}

NextAnalysis ==
    \/ create_user("u1", <<"h1">>, <<>>)
    \/ \E r \in AnalysisRequests, llm \in LLMAnalyses :
          generate_daily_analysis(r[1], r[2], llm)
    \/ \E r \in AnalysisKeys : get_daily_analysis(r[1], r[2])

SpecAnalysis == Init /\ [][NextAnalysis]_vars

\* C7: with generate_daily_analysis calls run one at a time, at most one
\* analysis is stored per (user_id, date); after a successful generation
\* the one stored for its (user_id, date) is the analysis it returned, any
\* other step leaves the stored analyses as they are, and
\* get_daily_analysis returns the stored one (nothing when there is none).
C7_OneAnalysisLatestWins ==
    /\ [](/\ \A r \in AnalysisKeys :
                Cardinality(OnUserDate(daily_analysis, r[1], r[2])) <= 1
          /\ resp.op = "get_daily_analysis" =>
                /\ Len(resp.body) =
                       Cardinality(OnUserDate(daily_analysis, resp.user,
                                              resp.date))
                /\ \A i \in OnUserDate(daily_analysis, resp.user, resp.date) :
                       resp.body = <<daily_analysis[i]>>)
    /\ [][\A r \in AnalysisKeys :
            StoredAnalysis(daily_analysis', r[1], r[2]) =
                IF /\ resp'.op = "generate_daily_analysis"
                   /\ resp'.status = 200
                   /\ r = <<resp'.user, resp'.date>>
                THEN <<resp'.body>>
                ELSE StoredAnalysis(daily_analysis, r[1], r[2])]_vars

\* C7 witness: u1's analysis for today was generated twice (the first one
\* had id 1 and earned 15 points, the second has the default score) and
\* get_daily_analysis returns the second
C7_Witness ==
    /\ resp.op = "get_daily_analysis"
    /\ resp.user = "u1"
    /\ resp.date = strftime(Today)
    /\ Len(daily_analysis) = 1
    /\ Len(resp.body) = 1
    /\ resp.body[1].id = 2
    /\ resp.body[1].overall_score = 50
    /\ users["u1"].points = 15

----------------------------------------------------------------------------
(* SpecPoints: every handler that writes db.users or that reports points,  *)
(* run one at a time                                                       *)

\* the ?points= arguments of add_points: any int is accepted
PointsArgs == {5, 0 - 5}

PointsAnalyses ==
    {[kind |-> "text", overall_score |-> MissingField,
      points_earned |-> MissingField],
     LLMAnalysis(IntField(70), IntField(15)),
     LLMAnalysis(IntField(0), IntField(0 - 10))}

NextPoints ==
    \/ create_user("u1", <<"h1">>, <<>>)
    \/ \E u \in UserIds, points \in PointsArgs : add_points(u, points)
    \/ \E u \in UserIds, c \in BOOLEAN :
          log_habit(u, "h1", c, strftime(Today), "none")
    \/ generate_smart_schedule("u1", strftime(Today),
                               [kind |-> "json", items |-> <<RunItem>>])
    \/ \E item_id \in 1..MaxSched : complete_schedule_item(item_id)
    \/ \E llm \in PointsAnalyses : generate_daily_analysis("u1", <<>>, llm)

SpecPoints == Init /\ [][NextPoints]_vars

\* C8: no operation lowers a user's points.
C8_PointsNeverDecrease ==
    [][\A u \in DOMAIN users :
          u \in DOMAIN users' /\ users'[u].points >= users[u].points]_vars

----------------------------------------------------------------------------
(* Insights.  A value is the exact quotient num / den; the rounding of the *)
(* float division is not modelled.                                         *)

\* (datetime.now() - timedelta(days=7)).strftime("%Y-%m-%d")
WeekAgo == strftime(Today - WindowDays)

\* InWindow with $gt in place of $gte
InWindowAfter(seq, u, limit) ==
    ToList(Find(seq, {i \in 1..Len(seq) :
                         /\ seq[i].user_id = u
                         /\ ~StrLeq(seq[i].date, WeekAgo)},
                1),
           limit)

\* InWindow without the user_id filter
InWindowAnyUser(seq, u, limit) ==
    ToList(Find(seq, {i \in 1..Len(seq) : StrLeq(WeekAgo, seq[i].date)}, 1),
           limit)

\* find({"user_id": u, "date": {"$gte": week_ago}}).to_list(limit): the
\* dates are compared as strings
InWindow(seq, u, limit) ==
    ToList(Find(seq, {i \in 1..Len(seq) :
                         seq[i].user_id = u /\ StrLeq(WeekAgo, seq[i].date)},
                1),
           limit)

\* the count of all documents in place of the completed ones
CountAll(docs) == Len(docs)

\* len([x for x in docs if x.get('completed')])
CountCompleted(docs) == Cardinality({i \in 1..Len(docs) : docs[i].completed})

RECURSIVE SumScores(_)
\* sum([a.get('overall_score', 0) for a in analyses])
SumScores(analyses) ==
    IF analyses = <<>> THEN 0
    ELSE analyses[1].overall_score + SumScores(Tail(analyses))

\* (completed / total) * 100
Rate(completed, total) == [num |-> 100 * completed, den |-> total]

Insight(type, title, value) ==
    [type |-> type, title |-> title, value |-> value]

\* the list get_user_insights builds from the fetched documents
Insights(logs, items, analyses) ==
    LET habits_completed == CountCompleted(logs)
        habits_total == Len(logs)
        tasks_completed == CountCompleted(items)
        tasks_total == Len(items)
        \* avg_score = sum / len if analyses else 0
        avg_score == IF Len(analyses) > 0
                     THEN [num |-> SumScores(analyses), den |-> Len(analyses)]
                     ELSE [num |-> 0, den |-> 1]
    IN  (IF habits_total > 0
         THEN <<Insight("pattern", "Habit Completion Rate",
                        Rate(habits_completed, habits_total))>>
         ELSE <<>>)
        \o (IF tasks_total > 0
            THEN <<Insight("pattern", "Schedule Follow-through",
                           Rate(tasks_completed, tasks_total))>>
            ELSE <<>>)
        \o (IF avg_score.num > 0
            THEN <<Insight(IF avg_score.num >= AchievementScore * avg_score.den
                           THEN "achievement" ELSE "warning",
                           "Weekly Average Score", avg_score)>>
            ELSE <<>>)

\* GET /rik/insights/{user_id}: the 404 of the user lookup is caught and
\* answered with an empty list and an error string
get_user_insights(u) ==
    /\ resp' =
         IF u \notin DOMAIN users
         THEN [op |-> "get_user_insights", user |-> u, status |-> 200,
               body |-> <<>>, error |-> TRUE]
         ELSE [op |-> "get_user_insights", user |-> u, status |-> 200,
               body |-> Insights(
                            InWindow(habit_logs, u, InsightFetchLimit),
                            InWindow(schedules, u, InsightFetchLimit),
                            InWindow(daily_analysis, u, AnalysisFetchLimit)),
               error |-> FALSE]
    /\ UNCHANGED <<chat_messages, users, habit_logs, schedules, daily_analysis, reqs>>

----------------------------------------------------------------------------
(* SpecInsights: get_user_insights over collections of at most             *)
(* MaxInsightDocs documents in all, dated today, yesterday or eight days   *)
(* ago, of u1 (and one document each of u2)                                *)

InsightLogs ==
    {[user_id |-> "u1", habit_name |-> h, completed |-> c, date |-> d,
      notes |-> "none"] :
        h \in HabitNames, c \in BOOLEAN,
        d \in {strftime(Today), strftime(Today - 8)}}
    \cup {[user_id |-> "u2", habit_name |-> "h1", completed |-> TRUE,
           date |-> strftime(Today), notes |-> "none"]}

InsightItems ==
    {[user_id |-> "u1", date |-> d, time |-> "07:00", title |-> "Run",
      completed |-> c] :
        c \in BOOLEAN, d \in {strftime(Today), strftime(Today - 8)}}
    \cup {[user_id |-> "u2", date |-> strftime(Today), time |-> "07:00",
           title |-> "Run", completed |-> TRUE]}

InsightScores == {0, 55, 70, 82}

InsightAnalyses ==
    {[user_id |-> "u1", date |-> d, overall_score |-> n, points_earned |-> 0] :
        n \in InsightScores,
        d \in {strftime(Today), strftime(Today - 1), strftime(Today - 8)}}
    \cup {[user_id |-> "u2", date |-> strftime(Today), overall_score |-> 82,
           points_earned |-> 0]}

\* the documents f lists, with the ids of their insertion
WithIds(f) == [i \in DOMAIN f |-> [id |-> i] @@ f[i]]

\* log_habit keeps one log per (user_id, habit_name, date)
OnePerTriple(f) ==
    \A i, j \in DOMAIN f :
        i # j => \/ f[i].user_id # f[j].user_id
                 \/ f[i].habit_name # f[j].habit_name
                 \/ f[i].date # f[j].date

\* generate_daily_analysis keeps one analysis per (user_id, date)
OnePerUserDate(f) ==
    \A i, j \in DOMAIN f :
        i # j => f[i].user_id # f[j].user_id \/ f[i].date # f[j].date

InitInsights ==
    /\ users = ("u1" :> NewProfile(<<"h1">>, <<"h2">>))
    /\ reqs = NoReqs
    /\ resp = NoResp
    /\ chat_messages = <<>>
    /\ \E nl \in 0..MaxInsightDocs :
         \E ns \in 0..(MaxInsightDocs - nl) :
           \E na \in 0..(MaxInsightDocs - nl - ns) :
             /\ habit_logs \in
                  {WithIds(f) : f \in {g \in [1..nl -> InsightLogs] :
                                          OnePerTriple(g)}}
             /\ schedules \in {WithIds(f) : f \in [1..ns -> InsightItems]}
             /\ daily_analysis \in
                  {WithIds(f) : f \in {g \in [1..na -> InsightAnalyses] :
                                          OnePerUserDate(g)}}

NextInsights == \E u \in UserIds : get_user_insights(u)

SpecInsights == InitInsights /\ [][NextInsights]_vars

InsightsReturned == resp.op = "get_user_insights" /\ ~resp.error

\* the positions of user u's documents dated within the last seven days
WindowDocs(seq, u) ==
    {i \in 1..Len(seq) :
        /\ seq[i].user_id = u
        /\ ~strptime(seq[i].date).err
        /\ strptime(seq[i].date).day >= Today - 6}

\* the positions of the returned insights with a title
WithTitle(title) ==
    {k \in 1..Len(resp.body) : resp.body[k].title = title}

\* the insight `title` is returned once, as a pattern of value
\* 100 * done / total
RateInsight(title, done, total) ==
    /\ Cardinality(WithTitle(title)) = 1
    /\ \A k \in WithTitle(title) :
          /\ resp.body[k].type = "pattern"
          /\ resp.body[k].value.num * total = 100 * done * resp.body[k].value.den

\* C9: with habit logs in the window the habit insight is a pattern of
\* value 100 * completed logs / logs, with schedule items in the window the
\* task insight is a pattern of value 100 * completed items / items, and
\* with both and no analysis exactly these two insights are returned.
C9_InsightRates ==
    InsightsReturned =>
        LET logs == WindowDocs(habit_logs, resp.user)
            items == WindowDocs(schedules, resp.user)
            analyses == WindowDocs(daily_analysis, resp.user)
        IN  /\ logs # {} =>
                  RateInsight("Habit Completion Rate",
                              Cardinality({i \in logs : habit_logs[i].completed}),
                              Cardinality(logs))
            /\ items # {} =>
                  RateInsight("Schedule Follow-through",
                              Cardinality({i \in items : schedules[i].completed}),
                              Cardinality(items))
            /\ (logs # {} /\ items # {} /\ analyses = {}) =>
                  Len(resp.body) = 2

\* C9 witness: two logs in the window, one of them completed, one item,
\* completed, no analysis: two insights, 50 and 100
C9_Witness ==
    /\ InsightsReturned
    /\ resp.user = "u1"
    /\ Cardinality(WindowDocs(habit_logs, "u1")) = 2
    /\ Cardinality({i \in WindowDocs(habit_logs, "u1") :
                       habit_logs[i].completed}) = 1
    /\ Cardinality(WindowDocs(schedules, "u1")) = 1
    /\ daily_analysis = <<>>
    /\ Len(resp.body) = 2
    /\ resp.body[1].value.num = 50 * resp.body[1].value.den
    /\ resp.body[2].value.num = 100 * resp.body[2].value.den

\* C10: with at least one analysis in the window (scores within 0..100)
\* exactly one score insight is returned; its value is the average score
\* and its type is achievement from an average of 70 on, warning below.
C10_ScoreInsight ==
    InsightsReturned =>
        LET analyses == WindowDocs(daily_analysis, resp.user)
            total == SumScores(Find(daily_analysis, analyses, 1))
            n == Cardinality(analyses)
        IN  (/\ analyses # {}
             /\ \A i \in analyses :
                   /\ daily_analysis[i].overall_score >= 0
                   /\ daily_analysis[i].overall_score <= 100)
            => /\ Cardinality(WithTitle("Weekly Average Score")) = 1
               /\ \A k \in WithTitle("Weekly Average Score") :
                     /\ resp.body[k].value.num * n = total * resp.body[k].value.den
                     /\ resp.body[k].type =
                            IF total >= 70 * n THEN "achievement" ELSE "warning"

\* the fixed order of the insights
InsightOrder ==
    <<"Habit Completion Rate", "Schedule Follow-through",
      "Weekly Average Score">>

TitleRank(title) == CHOOSE i \in 1..Len(InsightOrder) : InsightOrder[i] = title

\* get_user_insights answered for a user that exists
InsightsAnswered ==
    resp.op = "get_user_insights" /\ resp.user \in DOMAIN users

\* C11: the insights returned follow the order habit rate, task rate, score
\* average with no metric twice; a metric with no document of the user in
\* the window is left out; a user with no document in the window gets the
\* empty list and no error.
C11_InsightOrderAndOmission ==
    InsightsAnswered =>
        LET logs == WindowDocs(habit_logs, resp.user)
            items == WindowDocs(schedules, resp.user)
            analyses == WindowDocs(daily_analysis, resp.user)
        IN  /\ \A k \in 1..Len(resp.body) :
                  \E i \in 1..Len(InsightOrder) :
                      resp.body[k].title = InsightOrder[i]
            /\ \A j, k \in 1..Len(resp.body) :
                  j < k => TitleRank(resp.body[j].title)
                               < TitleRank(resp.body[k].title)
            /\ logs = {} => WithTitle("Habit Completion Rate") = {}
            /\ items = {} => WithTitle("Schedule Follow-through") = {}
            /\ analyses = {} => WithTitle("Weekly Average Score") = {}
            /\ (logs = {} /\ items = {} /\ analyses = {}) =>
                  resp.body = <<>> /\ ~resp.error

\* C11 witness: the user has logs and an analysis in the window and only
\* older schedule items: the habit rate, then the score average
C11_Witness ==
    /\ InsightsAnswered
    /\ WindowDocs(habit_logs, resp.user) # {}
    /\ WindowDocs(schedules, resp.user) = {}
    /\ schedules # <<>>
    /\ WindowDocs(daily_analysis, resp.user) # {}
    /\ Len(resp.body) = 2
    /\ resp.body[1].title = "Habit Completion Rate"
    /\ resp.body[2].title = "Weekly Average Score"

----------------------------------------------------------------------------
(* SpecWindow: get_user_insights over documents of u1 dated at the edge of *)
(* the window, six and seven days ago                                      *)

WindowDates == {strftime(Today - 6), strftime(Today - 7)}

WindowLogs ==
    {[user_id |-> "u1", habit_name |-> h, completed |-> c, date |-> d,
      notes |-> "none"] :
        h \in HabitNames, c \in BOOLEAN, d \in WindowDates}

WindowItems ==
    {[user_id |-> "u1", date |-> d, time |-> "07:00", title |-> "Run",
      completed |-> c] : c \in BOOLEAN, d \in WindowDates}

WindowAnalyses ==
    {[user_id |-> "u1", date |-> d, overall_score |-> n, points_earned |-> 0] :
        n \in {55, 82}, d \in WindowDates}

InitWindow ==
    /\ users = ("u1" :> NewProfile(<<"h1">>, <<"h2">>))
    /\ reqs = NoReqs
    /\ resp = NoResp
    /\ chat_messages = <<>>
    /\ \E nl \in 0..MaxInsightDocs :
         \E ns \in 0..(MaxInsightDocs - nl) :
           \E na \in 0..(MaxInsightDocs - nl - ns) :
             /\ habit_logs \in
                  {WithIds(f) : f \in {g \in [1..nl -> WindowLogs] :
                                          OnePerTriple(g)}}
             /\ schedules \in {WithIds(f) : f \in [1..ns -> WindowItems]}
             /\ daily_analysis \in
                  {WithIds(f) : f \in {g \in [1..na -> WindowAnalyses] :
                                          OnePerUserDate(g)}}

SpecWindow == InitWindow /\ [][NextInsights]_vars

\* C12: only the documents dated today - 6 or later count: each rate is
\* the rate over these documents, the score is their average, and a metric
\* with no such document is left out (a document dated today - 7 adds
\* nothing to any insight).
C12_WindowIsSevenDays ==
    InsightsAnswered =>
        LET logs == WindowDocs(habit_logs, resp.user)
            items == WindowDocs(schedules, resp.user)
            analyses == WindowDocs(daily_analysis, resp.user)
            total == SumScores(Find(daily_analysis, analyses, 1))
            n == Cardinality(analyses)
        IN  /\ IF logs = {} THEN WithTitle("Habit Completion Rate") = {}
               ELSE RateInsight("Habit Completion Rate",
                                Cardinality({i \in logs :
                                                habit_logs[i].completed}),
                                Cardinality(logs))
            /\ IF items = {} THEN WithTitle("Schedule Follow-through") = {}
               ELSE RateInsight("Schedule Follow-through",
                                Cardinality({i \in items :
                                                schedules[i].completed}),
                                Cardinality(items))
            /\ \A k \in WithTitle("Weekly Average Score") :
                  /\ n > 0
                  /\ resp.body[k].value.num * n
                         = total * resp.body[k].value.den

----------------------------------------------------------------------------
(* SpecManyAnalyses: get_user_insights for a user with one analysis a day  *)
(* from six days ago on, as many as the fetch limit or one more (the last  *)
(* one is then dated tomorrow), and at most one habit log                  *)

ManyScores == {50, 90}

\* analyses of u1 in insertion order, the i-th dated today - 7 + i
ManyAnalyses(f) ==
    [i \in DOMAIN f |->
        [id |-> i, user_id |-> "u1", date |-> strftime(Today - 7 + i),
         overall_score |-> f[i], points_earned |-> 0]]

InitManyAnalyses ==
    /\ users = ("u1" :> NewProfile(<<"h1">>, <<"h2">>))
    /\ reqs = NoReqs
    /\ resp = NoResp
    /\ chat_messages = <<>>
    /\ schedules = <<>>
    /\ habit_logs \in
          {<<>>} \cup {WithIds(f) : f \in [1..1 -> InsightLogs]}
    /\ daily_analysis \in
          {ManyAnalyses(f) :
              f \in UNION {[1..n -> ManyScores] :
                              n \in {AnalysisFetchLimit,
                                     AnalysisFetchLimit + 1}}}

SpecManyAnalyses == InitManyAnalyses /\ [][NextInsights]_vars

\* C13: the score insight is the average over every analysis of the user
\* dated today - 6 or later, those dated after today included, and each
\* rate is taken over every log and every item in the window.
C13_NoRecordLeftOut ==
    InsightsAnswered =>
        LET logs == WindowDocs(habit_logs, resp.user)
            items == WindowDocs(schedules, resp.user)
            analyses == WindowDocs(daily_analysis, resp.user)
            total == SumScores(Find(daily_analysis, analyses, 1))
            n == Cardinality(analyses)
        IN  /\ logs # {} =>
                  RateInsight("Habit Completion Rate",
                              Cardinality({i \in logs : habit_logs[i].completed}),
                              Cardinality(logs))
            /\ items # {} =>
                  RateInsight("Schedule Follow-through",
                              Cardinality({i \in items : schedules[i].completed}),
                              Cardinality(items))
            /\ total > 0 =>
                  /\ Cardinality(WithTitle("Weekly Average Score")) = 1
                  /\ \A k \in WithTitle("Weekly Average Score") :
                        resp.body[k].value.num * n
                            = total * resp.body[k].value.den

----------------------------------------------------------------------------
(* SpecDupStreak: get_habit_streaks over collections in which a (habit,    *)
(* date) may have more than one log, as concurrent log_habit requests      *)
(* leave them (at most MaxLogs logs of habit h1 of user u1)                *)

InitDupStreak ==
    /\ users = ("u1" :> NewProfile(<<"h1">>, <<"h2">>))
    /\ \E n \in 0..MaxLogs :
          \E f \in [1..n -> {"h1"} \X BOOLEAN \X StreakDates] :
              habit_logs = [i \in 1..n |-> StreakLog(i, f[i])]
    /\ schedules = <<>>
    /\ daily_analysis = <<>>
    /\ reqs = NoReqs
    /\ resp = NoResp
    /\ chat_messages = <<>>

SpecDupStreak == InitDupStreak /\ [][NextStreak]_vars

RECURSIVE DedupeByDate(_)
\* logs with only the first log of each date kept
DedupeByDate(logs) ==
    IF logs = <<>> THEN <<>>
    ELSE <<logs[1]>>
         \o DedupeByDate(Find(logs, {i \in 2..Len(logs) :
                                        logs[i].date # logs[1].date}, 1))

\* C14: the streak returned for a habit is the streak of its completed
\* logs with the logs of a repeated date removed.
C14_DuplicateDatesDeduped ==
    StreaksReturned =>
        \A h \in DOMAIN resp.body :
            resp.body[h] =
                ScanStreak(DedupeByDate(CompletedLogs(habit_logs, resp.user, h)),
                           1, 0).streak

----------------------------------------------------------------------------
(* SpecBadDates: get_habit_streaks over logs whose date log_habit stored   *)
(* as posted: today, yesterday, or a string that is no calendar date       *)
(* ("2025-07-00", "2025-07-32", "2025-07-xx")                              *)

BadDates == {<<0, 0>>, <<3, 2>>, <<10, 10>>}

InitBadDates ==
    /\ users = ("u1" :> NewProfile(<<"h1">>, <<"h2">>))
    /\ \E n \in 0..MaxLogs :
          \E f \in {g \in [1..n -> HabitNames \X BOOLEAN
                                      \X ({strftime(Today), strftime(Today - 1)}
                                           \cup BadDates)] :
                        OnePerHabitDate(g)} :
              habit_logs = [i \in 1..n |-> StreakLog(i, f[i])]
    /\ schedules = <<>>
    /\ daily_analysis = <<>>
    /\ reqs = NoReqs
    /\ resp = NoResp
    /\ chat_messages = <<>>

SpecBadDates == InitBadDates /\ [][NextStreak]_vars

\* a completed log of habit h of user u has a date that does not parse
DoneMalformed(u, h) ==
    \E i \in DoneLogs(u, h) : strptime(habit_logs[i].date).err

\* C15: when a completed log of one of the user's habits has a date that
\* is no calendar date, get_habit_streaks ends in the parse error (status
\* 500) and returns no streaks.
C15_MalformedDateFails ==
    (resp.op = "get_habit_streaks" /\ resp.user \in DOMAIN users) =>
        ((\E h \in SeqRange(AllHabits(users[resp.user])) :
              DoneMalformed(resp.user, h))
         => resp.status = 500)

----------------------------------------------------------------------------
\* C16: a get_habit_streaks call changes no user profile, habit log,
\* schedule item or analysis, and a call that follows a call for the same
\* user returns the same response.
C16_StreaksPureRead ==
    [][resp'.op = "get_habit_streaks" =>
          /\ UNCHANGED <<users, habit_logs, schedules, daily_analysis>>
          /\ (resp.op = "get_habit_streaks" /\ resp.user = resp'.user)
                => resp' = resp]_vars

\* C16 witness: streaks returned for a user with a completed log of today
\* and the 5 points it earned
C16_Witness ==
    /\ StreaksReturned
    /\ resp.user = "u1"
    /\ DoneOn("u1", "h1", Today)
    /\ users["u1"].points = 5
    /\ users["u1"].streak_days = 0
    /\ resp.body["h1"] = 1

----------------------------------------------------------------------------
(* Chat.  created_at is the time the ChatMessage object is built, as the   *)
(* store keeps it: a count of milliseconds.  The two messages of an        *)
(* exchange are built one after the other, so the second has the created_at*)
(* of the first or a later one.                                            *)

\* What chat.send_message comes to: kind "error" (it raises) or kind "text"
LLMReply(text) == [kind |-> "text", text |-> text]

LLMError == [kind |-> "error", text |-> ""]

RECURSIVE MaxCreatedAt(_)
\* the latest created_at of msgs, 0 when there is none
MaxCreatedAt(msgs) ==
    IF msgs = <<>> THEN 0
    ELSE LET rest == MaxCreatedAt(Tail(msgs))
         IN  IF msgs[1].created_at >= rest THEN msgs[1].created_at ELSE rest

\* ChatMessage(user_id=..., role=..., content=..., message_type=...)
NewChatMessage(seq, u, role, content, context, t) ==
    [id |-> NewId(seq), user_id |-> u, role |-> role, content |-> content,
     message_type |-> context, created_at |-> t]

ChatResp(u, error, text) ==
    [op |-> "rik_intelligent_chat", user |-> u, status |-> 200,
     error |-> error, body |-> text]

\* POST /rik/chat, run to completion; t1 and t2 are the created_at of the
\* two messages.  Every exception, the 404 of the user lookup included, is
\* caught and answered with an apology and an error string.
rik_intelligent_chat(u, message, context, llm, t1, t2) ==
    IF u \notin DOMAIN users \/ llm.kind = "error"
    THEN /\ resp' = ChatResp(u, TRUE, "Sorry, I couldn't process that. Try again?")
         /\ UNCHANGED <<users, habit_logs, schedules, daily_analysis,
                        chat_messages, reqs>>
    ELSE LET user_msg == NewChatMessage(chat_messages, u, "user", message,
                                        context, t1)
             saved == Append(chat_messages, user_msg)
             rik_msg == NewChatMessage(saved, u, "assistant", llm.text,
                                       context, t2)
         IN  /\ Len(chat_messages) + 2 <= 2 * MaxChats
             /\ t1 >= MaxCreatedAt(chat_messages)
             /\ t2 >= t1
             /\ chat_messages' = Append(saved, rik_msg)
             /\ resp' = ChatResp(u, FALSE, llm.text)
             /\ UNCHANGED <<users, habit_logs, schedules, daily_analysis, reqs>>

\* the orders sort("created_at", -1) can return msgs in: every order that
\* is descending in created_at (the order of equal keys is not specified)
SortCreatedDesc(msgs) ==
    {[i \in 1..Len(msgs) |-> msgs[p[i]]] :
        p \in {q \in [1..Len(msgs) -> 1..Len(msgs)] :
                  /\ \A i, j \in 1..Len(msgs) : i # j => q[i] # q[j]
                  /\ \A i, j \in 1..Len(msgs) :
                        i < j => msgs[q[i]].created_at >= msgs[q[j]].created_at}}

\* messages.reverse()
Reverse(seq) == [i \in 1..Len(seq) |-> seq[Len(seq) + 1 - i]]

\* GET /chat/{user_id}/history with the default limit
get_chat_history(u) ==
    /\ \E sorted \in SortCreatedDesc(
                         Find(chat_messages,
                              {i \in 1..Len(chat_messages) :
                                  chat_messages[i].user_id = u}, 1)) :
          resp' = [op |-> "get_chat_history", user |-> u, status |-> 200,
                   body |-> Reverse(ToList(sorted, HistoryLimit))]
    /\ UNCHANGED <<users, habit_logs, schedules, daily_analysis,
                   chat_messages, reqs>>

----------------------------------------------------------------------------
(* SpecChat: chats and history reads run one at a time                     *)

ChatTexts == {"m1"}

LLMReplies == {LLMError, LLMReply("r1")}

NextChat ==
    \/ \E u \in UserIds : create_user(u, <<"h1">>, <<"h2">>)
    \/ \E u \in UserIds, message \in ChatTexts, llm \in LLMReplies :
          \E t1 \in MaxCreatedAt(chat_messages)..(MaxCreatedAt(chat_messages) + 1) :
             \E t2 \in t1..(t1 + 1) :
                rik_intelligent_chat(u, message, "general", llm, t1, t2)
    \/ \E u \in UserIds : get_chat_history(u)

SpecChat == Init /\ [][NextChat]_vars

\* the position of the message with id `id` in the returned history, 0
\* when it is not there
PosInHistory(id) ==
    FindOneIdx({k \in 1..Len(resp.body) : resp.body[k].id = id})

\* the positions in chat_messages of the user messages of u: the reply of
\* the message at position i is at position i + 1
Exchanges(u) ==
    {i \in 1..Len(chat_messages) :
        chat_messages[i].user_id = u /\ chat_messages[i].role = "user"}

\* C18: the history returned for a user holds the message and the reply of
\* each of the user's successful chats, the message before its reply,
\* in chronological order; a chat that succeeds stores its message and its
\* reply and a chat that fails stores nothing.
C18_ChatHistoryOrdered ==
    /\ [](resp.op = "get_chat_history" =>
            /\ \A i \in Exchanges(resp.user) :
                  /\ PosInHistory(chat_messages[i].id) > 0
                  /\ PosInHistory(chat_messages[i + 1].id) > 0
                  /\ PosInHistory(chat_messages[i].id)
                        < PosInHistory(chat_messages[i + 1].id)
            /\ \A j, k \in 1..Len(resp.body) :
                  j < k => resp.body[j].created_at <= resp.body[k].created_at)
    /\ [][resp'.op = "rik_intelligent_chat" =>
             IF resp'.error
             THEN chat_messages' = chat_messages
             ELSE /\ Len(chat_messages') = Len(chat_messages) + 2
                  /\ SubSeq(chat_messages', 1, Len(chat_messages))
                        = chat_messages
                  /\ chat_messages'[Len(chat_messages) + 1].role = "user"
                  /\ chat_messages'[Len(chat_messages) + 1].user_id
                        = resp'.user
                  /\ chat_messages'[Len(chat_messages) + 2].role = "assistant"
                  /\ chat_messages'[Len(chat_messages) + 2].content
                        = resp'.body]_vars

----------------------------------------------------------------------------
(* The other handlers that look the user up first *)

\* POST /rik/learn-routine: every exception, the 404 of the user lookup
\* included, is caught and raised again as 500
learn_routine_from_conversation(u, llm) ==
    IF u \notin DOMAIN users \/ llm.kind = "error"
    THEN /\ resp' = [op |-> "learn_routine_from_conversation", user |-> u,
                     status |-> 500, body |-> ""]
         /\ UNCHANGED <<users, habit_logs, schedules, daily_analysis,
                        chat_messages, reqs>>
    ELSE /\ users' = [users EXCEPT ![u].actual_routine = llm.text,
                                   ![u].routine_learned = TRUE]
         /\ resp' = [op |-> "learn_routine_from_conversation", user |-> u,
                     status |-> 200, body |-> llm.text]
         /\ UNCHANGED <<habit_logs, schedules, daily_analysis, chat_messages,
                        reqs>>

\* GET /rik/morning-briefing/{user_id}.  The except branch formats
\* user_profile.name: for an unknown user user_profile was never assigned,
\* the branch raises UnboundLocalError and the request ends as 500.  For a
\* known user a failure of the LLM is answered with the stock greeting.
\* (first_task, the earliest item of today, is left out of the body.)
get_morning_briefing(u, llm) ==
    /\ resp' =
         IF u \notin DOMAIN users
         THEN [op |-> "get_morning_briefing", user |-> u, llm |-> llm, status |-> 500,
               body |-> <<>>]
         ELSE IF llm.kind = "error"
         THEN [op |-> "get_morning_briefing", user |-> u, llm |-> llm, status |-> 200,
               body |-> [briefing |-> "Good morning! Ready to crush today?",
                         error |-> TRUE]]
         ELSE [op |-> "get_morning_briefing", user |-> u, llm |-> llm, status |-> 200,
               body |-> [briefing |-> llm.text,
                         schedule_count |->
                             Cardinality(OnUserDate(schedules, u,
                                                    strftime(Today))),
                         streak |-> users[u].streak_days,
                         points |-> users[u].points]]
    /\ UNCHANGED <<users, habit_logs, schedules, daily_analysis,
                   chat_messages, reqs>>

\* GET /rik/status/{user_id}
get_rik_status(u) ==
    /\ resp' =
         IF u \notin DOMAIN users
         THEN [op |-> "get_rik_status", user |-> u, status |-> 404,
               body |-> <<>>]
         ELSE LET schedule == Find(schedules,
                                   OnUserDate(schedules, u, strftime(Today)),
                                   1)
                  logs == Find(habit_logs,
                               OnUserDate(habit_logs, u, strftime(Today)), 1)
              IN  [op |-> "get_rik_status", user |-> u, status |-> 200,
                   body |-> [schedule_completed |-> CountCompleted(schedule),
                             schedule_total |-> Len(schedule),
                             habits_done |-> CountCompleted(logs),
                             habits_total |->
                                 Len(users[u].habits_to_build)
                                   + Len(users[u].habits_to_quit),
                             points |-> users[u].points,
                             streak |-> users[u].streak_days,
                             routine_learned |-> users[u].routine_learned]]
    /\ UNCHANGED <<users, habit_logs, schedules, daily_analysis,
                   chat_messages, reqs>>

----------------------------------------------------------------------------
(* SpecLookup: the eight handlers that look the user up, run one at a      *)
(* time for u1, whom create_user registers, and for u2, who never exists   *)

LookupOps ==
    {"rik_intelligent_chat", "learn_routine_from_conversation",
     "generate_smart_schedule", "get_morning_briefing", "get_user_insights",
     "generate_daily_analysis", "get_rik_status", "get_habit_streaks"}

NextLookup ==
    \/ create_user("u1", <<"h1">>, <<"h2">>)
    \/ \E u \in UserIds, llm \in LLMReplies :
          rik_intelligent_chat(u, "m1", "general", llm,
                               MaxCreatedAt(chat_messages),
                               MaxCreatedAt(chat_messages))
    \/ \E u \in UserIds, llm \in LLMReplies :
          learn_routine_from_conversation(u, llm)
    \/ \E u \in UserIds :
          generate_smart_schedule(u, strftime(Today),
                                  [kind |-> "json", items |-> <<RunItem>>])
    \/ \E u \in UserIds, llm \in LLMReplies : get_morning_briefing(u, llm)
    \/ \E u \in UserIds : get_user_insights(u)
    \/ \E u \in UserIds :
          generate_daily_analysis(u, <<>>,
                                  LLMAnalysis(IntField(70), IntField(15)))
    \/ \E u \in UserIds : get_rik_status(u)
    \/ \E u \in UserIds : get_habit_streaks(u)

SpecLookup == Init /\ [][NextLookup]_vars

\* C17: each of the eight handlers, called for a user id no user has, ends
\* with status 404 and writes to no collection.
C17_UnknownUserIs404 ==
    /\ []((resp.op \in LookupOps /\ resp.user \notin DOMAIN users)
            => resp.status = 404)
    /\ [][(resp'.op \in LookupOps /\ resp'.user \notin DOMAIN users)
            => UNCHANGED <<users, habit_logs, schedules, daily_analysis,
                           chat_messages>>]_vars

----------------------------------------------------------------------------
(* SpecStreakKeys: get_habit_streaks for profiles whose habit lists are    *)
(* empty, disjoint or overlapping, over logs of h1 and h2 dated today,     *)
(* yesterday or "2025-07-00"                                               *)

KeyProfiles ==
    {NewProfile(build, quit) :
        build \in {<<>>, <<"h1">>}, quit \in {<<>>, <<"h1">>, <<"h2">>}}

InitStreakKeys ==
    /\ \E profile \in KeyProfiles : users = ("u1" :> profile)
    /\ \E n \in 0..MaxLogs :
          \E f \in {g \in [1..n -> HabitNames \X BOOLEAN
                                      \X {strftime(Today), strftime(Today - 1),
                                          <<0, 0>>}] :
                        OnePerHabitDate(g)} :
              habit_logs = [i \in 1..n |-> StreakLog(i, f[i])]
    /\ schedules = <<>>
    /\ daily_analysis = <<>>
    /\ chat_messages = <<>>
    /\ reqs = NoReqs
    /\ resp = NoResp

SpecStreakKeys == InitStreakKeys /\ [][NextStreak]_vars

\* the habit names of the profile of user u
ProfileHabits(u) ==
    SeqRange(users[u].habits_to_build) \cup SeqRange(users[u].habits_to_quit)

\* the streaks returned have one entry per habit name of the profile and
\* no other, each a natural number
StreakKeysAreProfileHabits ==
    /\ resp.status = 200
    /\ DOMAIN resp.body = ProfileHabits(resp.user)
    /\ \A h \in DOMAIN resp.body : resp.body[h] \in Nat

\* C19 as stated: for an existing user get_habit_streaks returns one entry
\* for every habit name of the profile and for no other name, each an
\* integer >= 0.
C19_StreakKeys ==
    (resp.op = "get_habit_streaks" /\ resp.user \in DOMAIN users) =>
        StreakKeysAreProfileHabits

\* C19 amended: for an existing user get_habit_streaks either returns one
\* entry for every habit name of the profile and for no other name, each
\* an integer >= 0, or fails (status 500) on a completed log of a profile
\* habit whose date does not parse.
C19_StreakKeysUnlessParseError ==
    (resp.op = "get_habit_streaks" /\ resp.user \in DOMAIN users) =>
        \/ StreakKeysAreProfileHabits
        \/ /\ resp.status = 500
           /\ \E h \in ProfileHabits(resp.user) : DoneMalformed(resp.user, h)

\* C19 witness: the profile has h1 only, a completed log of h2 for today
\* is stored and ignored, h1 has streak 1
C19_Witness ==
    /\ StreaksReturned
    /\ resp.user = "u1"
    /\ ProfileHabits("u1") = {"h1"}
    /\ DoneOn("u1", "h2", Today)
    /\ DOMAIN resp.body = {"h1"}
    /\ resp.body["h1"] = 1

----------------------------------------------------------------------------
\* C20: complete_schedule_item for a stored item sets the item's completed
\* flag and adds the points_earned it reports to the points of the item's
\* user.
C20_CompletionEarnsPoints ==
    [][resp'.op = "complete_schedule_item" =>
          \A i \in 1..Len(schedules) :
              schedules[i].id = resp'.item_id =>
                  /\ Len(schedules') = Len(schedules)
                  /\ schedules'[i].completed
                  /\ users'[schedules[i].user_id].points
                        = users[schedules[i].user_id].points
                            + resp'.body.points_earned]_vars

----------------------------------------------------------------------------
(* SpecFallback: schedules generated for users whose wake_time update_user *)
(* may have changed, from a response that is prose, an array or a failure  *)

ProfileUpdates == {[wake_time |-> "05:30"], [streak_days |-> 3]}

FallbackSchedules ==
    {[kind |-> "error", items |-> <<>>], [kind |-> "text", items |-> <<>>],
     [kind |-> "json", items |-> <<RunItem, EmptyItem>>]}

NextFallback ==
    \/ create_user("u1", <<"h1">>, <<>>)
    \/ \E u \in UserIds, updates \in ProfileUpdates : update_user(u, updates)
    \/ \E u \in UserIds, d \in {strftime(Today), strftime(Today + 1)},
           llm \in FallbackSchedules :
          generate_smart_schedule(u, d, llm)

SpecFallback == Init /\ [][NextFallback]_vars

\* C21: generate_smart_schedule for an existing user whose LLM response
\* does not parse as JSON succeeds, and the schedule stored for its (user,
\* date) is then exactly one item, titled "Wake Up", at the user's
\* wake_time, not completed.
C21_ParseFallback ==
    (/\ resp.op = "generate_smart_schedule"
     /\ resp.llm.kind = "text"
     /\ resp.user \in DOMAIN users)
    => /\ resp.status = 200
       /\ ScheduleOf(resp.user, resp.date) = resp.body
       /\ Len(resp.body) = 1
       /\ resp.body[1].title = "Wake Up"
       /\ resp.body[1].time = users[resp.user].wake_time
       /\ ~resp.body[1].completed

\* C21 witness: u1's wake_time was set to 05:30 and the fallback stored
\* the one default item at 05:30
C21_Witness ==
    /\ resp.op = "generate_smart_schedule"
    /\ resp.llm.kind = "text"
    /\ resp.status = 200
    /\ resp.user = "u1"
    /\ users["u1"].wake_time = "05:30"
    /\ Len(schedules) = 1
    /\ schedules[1].id = 1
    /\ schedules[1].time = "05:30"
    /\ schedules[1].title = "Wake Up"

----------------------------------------------------------------------------
\* C22: a get_morning_briefing call in which a step raises (the user
\* lookup finds no user, the LLM call fails) returns the fallback payload,
\* the stock greeting with an error string, with status 200.
C22_BriefingFallback ==
    (/\ resp.op = "get_morning_briefing"
     /\ (resp.user \notin DOMAIN users \/ resp.llm.kind = "error"))
    => /\ resp.status = 200
       /\ resp.body.error
       /\ resp.body.briefing = "Good morning! Ready to crush today?"

----------------------------------------------------------------------------
(* add_points and generate_daily_analysis as coroutines: each awaited      *)
(* store or LLM call is one step.  reqs[r].req holds the arguments.        *)

\* a request arrives and the handler starts
AddPointsCall(r, u, points) ==
    /\ reqs[r].pc = "idle"
    /\ reqs' = [reqs EXCEPT ![r] = [pc |-> "add_inc",
                                    req |-> [user_id |-> u, points |-> points],
                                    id |-> 0]]
    /\ UNCHANGED <<users, habit_logs, schedules, daily_analysis,
                   chat_messages, resp>>

\* await db.users.update_one({"id": user_id}, {"$inc": {"points": points}})
AddPointsInc(r) ==
    LET req == reqs[r].req
    IN  /\ reqs[r].pc = "add_inc"
        /\ req.user_id \in DOMAIN users =>
              /\ users[req.user_id].points + req.points <= MaxPoints
              /\ users[req.user_id].points + req.points >= 0 - MaxPoints
        /\ users' = IncPoints(users, req.user_id, req.points)
        /\ reqs' = [reqs EXCEPT ![r].pc = "add_find"]
        /\ UNCHANGED <<habit_logs, schedules, daily_analysis, chat_messages,
                       resp>>

\* user = await db.users.find_one({"id": user_id}); return the total
AddPointsFindOne(r) ==
    LET u == reqs[r].req.user_id
    IN  /\ reqs[r].pc = "add_find"
        /\ resp' = IF u \in DOMAIN users
                   THEN [op |-> "add_points", user |-> u, status |-> 200,
                         body |-> users[u].points]
                   ELSE [op |-> "add_points", user |-> u, status |-> 500,
                         body |-> 0]
        /\ reqs' = [reqs EXCEPT ![r] = IdleReq]
        /\ UNCHANGED <<users, habit_logs, schedules, daily_analysis,
                       chat_messages>>

\* a request arrives and the handler starts
AnalysisCall(r, u, date, llm) ==
    /\ reqs[r].pc = "idle"
    /\ reqs' = [reqs EXCEPT ![r] =
                   [pc |-> "an_find_user",
                    req |-> [user_id |-> u, date |-> AnalysisDate(date),
                             llm |-> llm],
                    id |-> 0]]
    /\ UNCHANGED <<users, habit_logs, schedules, daily_analysis,
                   chat_messages, resp>>

\* user = await db.users.find_one({"id": user_id}), then the reads of the
\* day's schedule and logs that go into the prompt
AnalysisFindUser(r) ==
    LET req == reqs[r].req
    IN  /\ reqs[r].pc = "an_find_user"
        /\ IF req.user_id \notin DOMAIN users
           THEN /\ resp' = AnalysisResp(req.user_id, req.date, req.llm, 500,
                                        <<>>)
                /\ reqs' = [reqs EXCEPT ![r] = IdleReq]
           ELSE /\ resp' = resp
                /\ reqs' = [reqs EXCEPT ![r].pc = "an_llm"]
        /\ UNCHANGED <<users, habit_logs, schedules, daily_analysis,
                       chat_messages>>

\* response = await chat.send_message(...), then the parse
AnalysisSendMessage(r) ==
    LET req == reqs[r].req
    IN  /\ reqs[r].pc = "an_llm"
        /\ IF req.llm.kind \in {"error", "other"}
           THEN /\ resp' = AnalysisResp(req.user_id, req.date, req.llm, 500,
                                        <<>>)
                /\ reqs' = [reqs EXCEPT ![r] = IdleReq]
           ELSE /\ resp' = resp
                /\ reqs' = [reqs EXCEPT ![r].pc = "an_inc"]
        /\ UNCHANGED <<users, habit_logs, schedules, daily_analysis,
                       chat_messages>>

\* await db.users.update_one({"id": user_id}, {"$inc": {"points": points}}),
\* then DailyAnalysis(...) is built
AnalysisIncPoints(r) ==
    LET req == reqs[r].req
        data == ParsedAnalysis(req.llm)
        points == DataGet(data.points_earned, 0)
    IN  /\ reqs[r].pc = "an_inc"
        /\ IF data.points_earned.key = "bad"
           THEN /\ users' = users
                /\ resp' = AnalysisResp(req.user_id, req.date, req.llm, 500,
                                        <<>>)
                /\ reqs' = [reqs EXCEPT ![r] = IdleReq]
           ELSE /\ req.user_id \in DOMAIN users =>
                      /\ users[req.user_id].points + points <= MaxPoints
                      /\ users[req.user_id].points + points >= 0 - MaxPoints
                /\ users' = IncPoints(users, req.user_id, points)
                /\ IF data.overall_score.key = "bad"
                   THEN /\ resp' = AnalysisResp(req.user_id, req.date,
                                                req.llm, 500, <<>>)
                        /\ reqs' = [reqs EXCEPT ![r] = IdleReq]
                   ELSE /\ resp' = resp
                        /\ reqs' = [reqs EXCEPT ![r].pc = "an_delete"]
        /\ UNCHANGED <<habit_logs, schedules, daily_analysis, chat_messages>>

\* await db.daily_analysis.delete_many({"user_id": user_id, "date": date})
AnalysisDeleteMany(r) ==
    LET req == reqs[r].req
    IN  /\ reqs[r].pc = "an_delete"
        /\ daily_analysis' = DeleteMany(daily_analysis, req.user_id, req.date)
        /\ reqs' = [reqs EXCEPT ![r].pc = "an_insert"]
        /\ UNCHANGED <<users, habit_logs, schedules, chat_messages, resp>>

\* await db.daily_analysis.insert_one(analysis.model_dump()); return
AnalysisInsertOne(r) ==
    LET req == reqs[r].req
        analysis == NewAnalysis(daily_analysis, req.user_id, req.date,
                                ParsedAnalysis(req.llm))
    IN  /\ reqs[r].pc = "an_insert"
        /\ daily_analysis' = Append(daily_analysis, analysis)
        /\ resp' = AnalysisResp(req.user_id, req.date, req.llm, 200, analysis)
        /\ reqs' = [reqs EXCEPT ![r] = IdleReq]
        /\ UNCHANGED <<users, habit_logs, schedules, chat_messages>>

----------------------------------------------------------------------------
(* SpecPointsConc: add_points, log_habit and generate_daily_analysis       *)
(* requests for the existing user u1, served concurrently                  *)

InitPointsConc ==
    /\ users = ("u1" :> NewProfile(<<"h1">>, <<"h2">>))
    /\ habit_logs = <<>>
    /\ schedules = <<>>
    /\ daily_analysis = <<>>
    /\ chat_messages = <<>>
    /\ reqs = NoReqs
    /\ resp = NoResp

PointsConcLogs == {HabitLogCreate("u1", "h1", TRUE, strftime(Today), "none")}

PointsConcAnalyses ==
    {LLMAnalysis(IntField(70), IntField(7)), LLMAnalysis(BadField, IntField(7))}

NextPointsConc ==
    \E r \in 1..MaxReqs :
        \/ AddPointsCall(r, "u1", 3)
        \/ AddPointsInc(r)
        \/ AddPointsFindOne(r)
        \/ \E req \in PointsConcLogs : LogHabitCall(r, req)
        \/ LogHabitFindOne(r)
        \/ LogHabitUpdateOne(r)
        \/ LogHabitFindUpdated(r)
        \/ LogHabitInsertOne(r)
        \/ LogHabitIncPoints(r)
        \/ \E llm \in PointsConcAnalyses : AnalysisCall(r, "u1", <<>>, llm)
        \/ AnalysisFindUser(r)
        \/ AnalysisSendMessage(r)
        \/ AnalysisIncPoints(r)
        \/ AnalysisDeleteMany(r)
        \/ AnalysisInsertOne(r)

SpecPointsConc == InitPointsConc /\ [][NextPointsConc]_vars

\* the increment request r is about to apply, at its $inc step
PendingInc(r) ==
    IF reqs[r].pc = "add_inc" THEN reqs[r].req.points
    ELSE IF reqs[r].pc = "inc_points" THEN 5
    ELSE IF reqs[r].pc = "an_inc"
         THEN IF reqs[r].req.llm.points_earned.key = "int"
              THEN reqs[r].req.llm.points_earned.val
              ELSE 0
    ELSE 0

\* request r takes its $inc step
AppliesInc(r) ==
    /\ reqs[r].pc \in {"add_inc", "inc_points", "an_inc"}
    /\ reqs'[r].pc # reqs[r].pc

\* C23: however the requests interleave, every step in which a request
\* applies its increment adds exactly that increment to the points the
\* user has at that moment, and no other step changes the points; so when
\* all requests have finished the points are the initial points plus every
\* increment applied.
C23_NoLostPointUpdates ==
    [][\A u \in DOMAIN users :
          IF \E r \in 1..MaxReqs : AppliesInc(r) /\ reqs[r].req.user_id = u
          THEN \E r \in 1..MaxReqs :
                  /\ AppliesInc(r)
                  /\ reqs[r].req.user_id = u
                  /\ users'[u].points = users[u].points + PendingInc(r)
          ELSE users'[u].points = users[u].points]_vars

\* C23 witness: an add_points request and an analysis request are both in
\* flight with their increments applied, 3 and 7, on top of the 5 points
\* of a completed habit log
C23_Witness ==
    /\ \E r, q \in 1..MaxReqs :
          reqs[r].pc = "add_find" /\ reqs[q].pc = "an_delete"
    /\ Len(habit_logs) = 1
    /\ habit_logs[1].completed
    /\ users["u1"].points = 15

----------------------------------------------------------------------------
\* C24: with the handlers run one at a time, a log_habit call adds 5 points
\* to its user when it creates a record with completed = true and changes
\* nobody's points otherwise (an update of an existing record included);
\* so a user's points, all from log_habit here, never exceed 5 times the
\* number of the user's habit-log records.
C24_HabitPointsOncePerRecord ==
    /\ [][resp'.op = "log_habit" =>
             \A u \in DOMAIN users :
                 users'[u].points =
                     users[u].points
                       + (IF /\ resp'.created
                             /\ resp'.req.completed
                             /\ resp'.req.user_id = u
                          THEN 5 ELSE 0)]_vars
    /\ [](\A u \in DOMAIN users :
             users[u].points
               <= 5 * Cardinality({i \in 1..Len(habit_logs) :
                                      habit_logs[i].user_id = u}))

\* C24 witness: u1's only record was created with completed = false and
\* then updated to completed = true: no points
C24_Witness ==
    /\ resp.op = "log_habit"
    /\ ~resp.created
    /\ resp.req.user_id = "u1"
    /\ resp.req.completed
    /\ "u1" \in DOMAIN users
    /\ users["u1"].points = 0
    /\ Len(habit_logs) = 1
    /\ habit_logs[1].completed

----------------------------------------------------------------------------
\* C25: a generate_smart_schedule call that ends in an error leaves the
\* schedule items stored for its (user, date) as they were before the call.
C25_FailedGenerationNoEffect ==
    [][(resp'.op = "generate_smart_schedule" /\ resp'.status = 500) =>
          Find(schedules', OnUserDate(schedules', resp'.user, resp'.date), 1)
              = ScheduleOf(resp'.user, resp'.date)]_vars

----------------------------------------------------------------------------
(* SpecCap: get_habit_streaks for a habit logged day after day: n logs of  *)
(* h1, one for each of the n days that end today, inserted oldest first,   *)
(* all completed but at most one; n is around the fetch limit              *)

\* the log of the k-th day before today (k = 0 is today), completed unless
\* k is the day missed
CapLog(n, k, missed) ==
    [id |-> n - k, user_id |-> "u1", habit_name |-> "h1",
     completed |-> (k # missed), date |-> strftimeMonthDay(Today - k),
     notes |-> "none"]

\* the day missed: none (0 - 1), one of the last two days, or one of the
\* oldest days logged
CapMissed(n) == {k \in (0 - 1)..(n - 1) : k < 2 \/ k > FetchLimit - 12}

InitCap ==
    /\ users = ("u1" :> NewProfile(<<"h1">>, <<>>))
    /\ \E n \in (FetchLimit - 1)..(FetchLimit + 2) :
          \E missed \in CapMissed(n) :
              habit_logs = [i \in 1..n |-> CapLog(n, n - i, missed)]
    /\ schedules = <<>>
    /\ daily_analysis = <<>>
    /\ chat_messages = <<>>
    /\ reqs = NoReqs
    /\ resp = NoResp

SpecCap == InitCap /\ [][NextStreak]_vars

\* the days on which u has a completed log of h
DoneDays(u, h) ==
    {strptime(habit_logs[i].date).day :
        i \in {j \in DoneLogs(u, h) : ~strptime(habit_logs[j].date).err}}

\* the FetchLimit + 1 days that end today
CapDays == {Today - k : k \in 0..FetchLimit}

\* C26: the streak returned for a habit is at most the number of its
\* completed logs and at most the fetch limit of 100, and a habit with a
\* completed log on each of more than 100 consecutive days ending today
\* has streak 100.
C26_StreakCappedAtFetchLimit ==
    StreaksReturned =>
        \A h \in DOMAIN resp.body :
            /\ resp.body[h] <= Cardinality(DoneLogs(resp.user, h))
            /\ resp.body[h] <= FetchLimit
            /\ CapDays \subseteq DoneDays(resp.user, h)
                  => resp.body[h] = FetchLimit

\* C26 witness: 101 completed logs, one for each of the 101 days ending
\* today, and a streak of 100
C26_Witness ==
    /\ StreaksReturned
    /\ resp.user = "u1"
    /\ Cardinality(DoneLogs("u1", "h1")) = FetchLimit + 1
    /\ CapDays \subseteq DoneDays("u1", "h1")
    /\ resp.body["h1"] = FetchLimit

----------------------------------------------------------------------------
(* SpecStreakDays: the stored streak_days of a profile under every handler *)
(* that writes to the store, with update_user setting wake_time or         *)
(* streak_days                                                             *)

NextStreakDays ==
    \/ create_user("u1", <<"h1">>, <<>>)
    \/ \E u \in UserIds, updates \in ProfileUpdates : update_user(u, updates)
    \/ \E u \in UserIds : add_points(u, 5)
    \/ \E c \in BOOLEAN : log_habit("u1", "h1", c, strftime(Today), "none")
    \/ generate_smart_schedule("u1", strftime(Today),
                               [kind |-> "json", items |-> <<RunItem>>])
    \/ \E item_id \in 1..MaxSched : complete_schedule_item(item_id)
    \/ generate_daily_analysis("u1", <<>>,
                               LLMAnalysis(IntField(70), IntField(15)))
    \/ \E u \in UserIds : get_habit_streaks(u)

SpecStreakDays == Init /\ [][NextStreakDays]_vars

\* the handlers the stored streak is not written by
StreakDaysReaders ==
    {"log_habit", "complete_schedule_item", "generate_smart_schedule",
     "generate_daily_analysis", "add_points", "get_habit_streaks"}

\* C27: a profile is created with streak_days 0; log_habit,
\* complete_schedule_item, generate_smart_schedule, generate_daily_analysis,
\* add_points and get_habit_streaks leave the streak_days of every profile
\* as it was, and streak_days changes only in an update_user call for that
\* user, to the value the call sets.
C27_StreakDaysOnlySetByUpdate ==
    [][/\ \A u \in DOMAIN users' \ DOMAIN users : users'[u].streak_days = 0
       /\ resp'.op \in StreakDaysReaders =>
              \A u \in DOMAIN users :
                  users'[u].streak_days = users[u].streak_days
       /\ \A u \in DOMAIN users :
              users'[u].streak_days # users[u].streak_days =>
                  /\ resp'.op = "update_user"
                  /\ resp'.user = u
                  /\ users'[u].streak_days = 3]_vars

\* C27 witness: u1 has earned points, has a completed log of h1 today, a
\* completed schedule item and a daily analysis, get_habit_streaks has just
\* returned a streak of 1 for h1, and the stored streak_days is still 0
C27_Witness ==
    /\ StreaksReturned
    /\ resp.user = "u1"
    /\ resp.body["h1"] = 1
    /\ users["u1"].streak_days = 0
    /\ users["u1"].points > 5
    /\ \E i \in 1..Len(schedules) :
          schedules[i].user_id = "u1" /\ schedules[i].completed
    /\ \E i \in 1..Len(daily_analysis) : daily_analysis[i].user_id = "u1"

====
